---- MODULE Spec2Model ----
(***************************************************************************)
(* starscout: the job orchestrator (JobManager), the batch enrichment      *)
(* pipeline (SemanticSearchManager::generate_and_store_embeddings) and the *)
(* durable store (Database) as one state machine.                          *)
(*                                                                         *)
(* Granularity: every step of a call or of a pipeline task performs one    *)
(* access to shared state (one database statement, one registry access,    *)
(* one access to a task handle) together with the synchronous code that    *)
(* follows it up to the next such access.  A task's pc names the await it  *)
(* is suspended at; "exit" is the synchronous epilogue of the spawned      *)
(* closure (job_manager.rs:137-147).                                       *)
(***************************************************************************)
EXTENDS Integers, Sequences, FiniteSets, TLC

\* ------------------------------------------------------------------ bounds
\* jobs that start_job may create in one process run
MaxJobs == 2
\* job records left in the store by an earlier process run
MaxBootJobs == 2
\* repository ids known to the source
MaxRepos == 3
\* longest list get_starred_repos returns
MaxStars == 3
\* injected failures of external calls (store, source, provider) per run
MaxFaults == 2

\* const BATCH_SIZE of generate_and_store_embeddings (50 in the source) and
\* const BATCH_SIZE of get_embeddings (4 in the source), scaled down so that
\* lists of at most MaxStars items still span several outer batches and an
\* outer batch still spans several provider sub-batches.
BATCH_SIZE == 2
EMBED_BATCH_SIZE == 1

VARIABLES
  phase,                \* "boot" | "boot_fail" | "serving" | "halted"
  lim,                  \* the bounds of this run (fixed by Init)
  boot_jobs,            \* the user_jobs table as the process found it
  boot_ids,             \* initialize(): job_ids collected from the scan
  jobs,                 \* table user_jobs: id -> row (id is the SERIAL key)
  repositories,         \* table repositories: id -> stored embedding, 0 = no row
  repos_without_readme, \* table repos_without_readme: set of ids
  user_stars,           \* table user_stars: user -> [present, repo_ids]
  active_jobs,          \* JobManager.active_jobs: user -> job id, 0 = no entry
  creating,             \* user -> start_job calls suspended at create_job
  overlap,              \* history: user -> a start_job call began while another was in
                        \* progress, and such a call has not returned yet (lim.observe)
  inserting,            \* jobs whose start_job has spawned but not yet inserted
  task,                 \* job id -> the spawned task (JoinHandle's task)
  stop,                 \* job id -> position of the stop_job call that took its entry
  faults,               \* failures injected so far
  search,               \* the semantic_search call in progress, or the last one made
  lib,                  \* a call of repo_to_embedding_text or of get_embeddings made on
                        \* its own: its arguments, where it stands and what it returned
  ret                   \* what the step just taken returned to the caller of start_job or
                        \* stop_job (a call turned away at the registry lookup is recorded
                        \* only in the runs that observe it, lim.observe)

vars == <<phase, lim, search, lib, boot_jobs, boot_ids, jobs, repositories, repos_without_readme,
          user_stars, active_jobs, creating, overlap, inserting, task, stop, faults, ret>>

\* ------------------------------------------------------------------ domains
\* user ids are i64 (start_job's parameter); BadUser does not convert to u64
GoodUser == 1
OtherUser == 2
BadUser == -1
AllUsers == {GoodUser, OtherUser, BadUser}
JobIds == 1..(MaxBootJobs + MaxJobs)
RepoIds == 1..MaxRepos

PENDING == "pending"
FETCHING == "Fetching stars..."
CREATING == "Creating embeddings..."
COMPLETED == "completed"
FAILED == "failed"
Statuses == {PENDING, FETCHING, CREATING, COMPLETED, FAILED}
Terminal == {COMPLETED, FAILED}

Min(a, b) == IF a < b THEN a ELSE b

RECURSIVE SetToSeq(_)
\* the ids of a set in ascending order (the source returns an ordered list)
SetToSeq(S) ==
  IF S = {} THEN <<>>
  ELSE LET m == CHOOSE x \in S : \A y \in S : x <= y
       IN <<m>> \o SetToSeq(S \ {m})

Range(s) == {s[i] : i \in 1..Len(s)}

\* a filter that keeps every item
SelectAll(s, S) == s

RECURSIVE SelectNotIn(_, _)
\* starred_repos.iter().filter(|repo| !existing_repo_ids.contains(&repo.id))
SelectNotIn(s, S) ==
  IF s = <<>> THEN <<>>
  ELSE IF Head(s) \in S THEN SelectNotIn(Tail(s), S)
       ELSE <<Head(s)>> \o SelectNotIn(Tail(s), S)

\* the lists get_starred_repos may return in this run: the ascending lists of
\* lim.least to lim.stars of the ids 1..lim.repos
StarLists == {SetToSeq(S) : S \in {T \in SUBSET (1..lim.repos) : Cardinality(T) \in lim.least..lim.stars}}

CanFail == faults < lim.faults

\* ------------------------------------------------------------------ results
\* Result<i32, JobError> of start_job and Result<(), JobError> of stop_job
NoResult == [op |-> "none", user_id |-> 0, result |-> "none", job_id |-> 0]
StartOk(u, j) == [op |-> "start", user_id |-> u, result |-> "Ok", job_id |-> j]
StartErr(u, e) == [op |-> "start", user_id |-> u, result |-> e, job_id |-> 0]
StopOk(u) == [op |-> "stop", user_id |-> u, result |-> "Ok", job_id |-> 0]
StopErr(u, e) == [op |-> "stop", user_id |-> u, result |-> e, job_id |-> 0]
\* Result<Option<UserJob>, JobError> of get_latest_job: the id of the row, 0 for None
LatestOk(u, j) == [op |-> "latest", user_id |-> u, result |-> "Ok", job_id |-> j]

\* ------------------------------------------------------------------ Database
\* Database::create_job: INSERT ... VALUES ($1, 'pending', 0, 0, 0) RETURNING id
NewJob(user_id) ==
  [user_id |-> user_id, status |-> PENDING, total_repos |-> 0,
   processed_repos |-> 0, failed_repos |-> 0, completed_at |-> FALSE]

\* an insert that writes the row twice
create_job_twice(js, user_id) == Append(Append(js, NewJob(user_id)), NewJob(user_id))

create_job(js, user_id) == Append(js, NewJob(user_id))

update_job_status(js, job_id, status) == [js EXCEPT ![job_id].status = status]

\* a progress write that stays in a buffer
update_job_progress_buffered(js, job_id, total, processed, failed) == js

update_job_progress(js, job_id, total, processed, failed) ==
  [js EXCEPT ![job_id].total_repos = total,
             ![job_id].processed_repos = processed,
             ![job_id].failed_repos = failed]

complete_job(js, job_id) ==
  [js EXCEPT ![job_id].status = COMPLETED, ![job_id].completed_at = TRUE]

fail_job(js, job_id) ==
  [js EXCEPT ![job_id].status = FAILED, ![job_id].completed_at = TRUE]

\* created_at is set by the store when the row is inserted; rows inserted one
\* after another carry increasing timestamps, as their SERIAL ids do
created_at(js, id) == id

\* a query that orders the rows of the user the other way round
get_earliest_job(js, user_id) ==
  LET mine == {id \in 1..Len(js) : js[id].user_id = user_id}
  IN IF mine = {} THEN 0
     ELSE CHOOSE id \in mine : \A other \in mine : created_at(js, id) <= created_at(js, other)

\* SELECT ... WHERE user_id = $1 ORDER BY created_at DESC LIMIT 1 (0 = no row)
get_latest_job(js, user_id) ==
  LET mine == {id \in 1..Len(js) : js[id].user_id = user_id}
  IN IF mine = {} THEN 0
     ELSE CHOOSE id \in mine : \A other \in mine : created_at(js, other) <= created_at(js, id)

\* the scan of initialize(): the rows in a non-terminal status
get_incomplete_jobs(js) == {id \in 1..Len(js) : js[id].status \notin Terminal}

\* the bulk update of initialize()
fail_jobs(js, ids) ==
  [id \in 1..Len(js) |->
     IF id \in ids THEN [js[id] EXCEPT !.status = FAILED, !.completed_at = TRUE]
     ELSE js[id]]

\* a lookup that reads the repositories table only
existing_repos_stored_only(repo_ids) == {id \in Range(repo_ids) : repositories[id] # 0}

\* SELECT id FROM (repositories UNION repos_without_readme) WHERE id = ANY($1)
existing_repos(repo_ids) ==
  {id \in Range(repo_ids) : repositories[id] # 0 \/ id \in repos_without_readme}

upsert_repository(rs, id, embedding) == [rs EXCEPT ![id] = embedding]

insert_repo_without_readme(ws, id) == ws \cup {id}

update_user_stars(us, user_id, repo_ids) ==
  [us EXCEPT ![user_id] = [present |-> TRUE, repo_ids |-> repo_ids]]

\* the provider's vector for the text built from repository id (a stand-in
\* that differs per text, so that a wrong pairing shows)
Embedding(id) == id

\* ------------------------------------------------------------------ library calls
\* no call of a library function made on its own
NoCall == [fn |-> "none"]

\* ------------------------------------------------------------------ queries
\* longest result a semantic_search call asks for
MaxTopK == 2

\* a text is the sequence of its chars (Unicode scalar values)
\* the query texts: the empty one and one that is not
Queries == {<<>>, <<"s">>}

\* the vectors the provider may return for a query text (stand-ins, as Embedding)
QueryVectors == 1..MaxRepos

\* (handler, params, api_key and status belong to the HTTP request that made
\* the call, when one did: the crate of the handler, the query parameters and
\* the Api_key header as received, and the status of a response the handler
\* gave without calling semantic_search; 0 when it gave none)
\* a semantic_search call: its arguments, the await it is suspended at, what it
\* has read and what it returned; reads, calls and ranked count its membership
\* reads, its provider requests and its ranking queries
NoSearch ==
  [pc |-> "idle", query |-> <<>>, top_k |-> 0, scope |-> "none", user_id |-> 0,
   starred_repo_ids |-> <<>>, query_embedding |-> 0, reads |-> 0, calls |-> 0,
   ranked |-> 0, result |-> "none", results |-> <<>>,
   handler |-> "none", params |-> [query |-> <<>>, top_k |-> <<>>], api_key |-> <<>>,
   status |-> 0]

\* `embedding <=> $1` on the stand-in vectors
Distance(a, b) == IF a < b THEN b - a ELSE a - b

\* the rows of S nearest to the query vector
Nearest(S, q) ==
  {id \in S : \A other \in S :
     Distance(repositories[id], q) <= Distance(repositories[other], q)}

RECURSIVE RankByDistance(_, _, _)
\* ORDER BY embedding <=> $1 LIMIT $2 over the rows S: the lists the store may
\* return (rows at the same distance come in any order)
RankByDistance(S, q, top_k) ==
  IF top_k = 0 \/ S = {} THEN {<<>>}
  ELSE UNION {{<<id>> \o rest : rest \in RankByDistance(S \ {id}, q, top_k - 1)} :
                id \in Nearest(S, q)}

\* FROM repositories
AllRepositories == {id \in RepoIds : repositories[id] # 0}

\* database.rs:81-125
semantic_search_repositories(q, top_k) == RankByDistance(AllRepositories, q, top_k)

\* a join that keeps every row of repositories
semantic_search_unfiltered(q, user_id, top_k) == RankByDistance(AllRepositories, q, top_k)

\* database.rs:128-177: JOIN user_stars us ON us.user_id = $2 AND r.id = ANY(us.repo_ids)
semantic_search_starred_repositories(q, user_id, top_k) ==
  RankByDistance({id \in AllRepositories : id \in Range(user_stars[user_id].repo_ids)},
                 q, top_k)

\* database.rs:242-254: the repo_ids of the user's row, empty when there is no row
get_user_starred_repo_ids_by_string(user_id) == user_stars[user_id].repo_ids

\* ------------------------------------------------------------------ tasks
\* calls counts the requests sent to the embedding provider; prior and clean
\* are history, read by the properties only: the jobs that had completed when
\* the task was spawned and whether no call had failed until then; so is solo,
\* recorded in the runs that observe the calls: the start_job call that spawned
\* the task has returned, and no other start_job call for the user was in
\* progress while it was; and, in the runs that tally the work, lost and
\* dropped: the upserts the store rejected and the items of the outer batches
\* whose embedding call failed
NoTask ==
  [st |-> "none", pc |-> "none", user_id |-> 0, starred_repos |-> <<>>,
   repos_to_process |-> <<>>, bi |-> 0, ri |-> 0, processed_repos |-> <<>>,
   embeddings |-> <<>>, processed_count |-> 0, failed_count |-> 0, err |-> "none",
   calls |-> 0, prior |-> {}, clean |-> TRUE, solo |-> FALSE, lost |-> 0, dropped |-> {}]

\* tokio::spawn(async move { process_user_stars(...).await; ... })
SpawnedTask(user_id) ==
  [NoTask EXCEPT !.st = "running", !.pc = "status_fetching", !.user_id = user_id]

\* a task that no longer runs keeps its outcome and drops its locals; a run
\* that records history also keeps what the task did (the list it fetched, its
\* provider calls)
Ended(t, st) ==
  LET kept ==
        IF lim.history
        THEN [NoTask EXCEPT !.st = st, !.pc = t.pc, !.user_id = t.user_id, !.err = t.err,
                            !.starred_repos = t.starred_repos, !.calls = t.calls,
                            !.prior = t.prior, !.clean = t.clean, !.solo = t.solo]
        ELSE [NoTask EXCEPT !.st = st, !.pc = t.pc, !.user_id = t.user_id, !.err = t.err,
                            !.solo = t.solo]
  IN IF lim.tally
     THEN [kept EXCEPT !.starred_repos = t.starred_repos,
                       !.repos_to_process = t.repos_to_process,
                       !.calls = t.calls, !.lost = t.lost, !.dropped = t.dropped]
     ELSE kept

Running(j) == phase = "serving" /\ task[j].st = "running"

\* ------------------------------------------------------------------ Init
BootRows ==
  {[NewJob(GoodUser) EXCEPT !.status = s, !.completed_at = (s \in Terminal)] :
     s \in Statuses}

BootTables(n) == UNION {[1..k -> BootRows] : k \in 0..n}

\* the repositories table with the rows of S stored by earlier runs
Stored(S) == [id \in RepoIds |-> IF id \in S THEN Embedding(id) ELSE 0]

\* a row an interrupted run left behind
StaleRow == [NewJob(GoodUser) EXCEPT !.status = CREATING]

InitProgram(l, tables, stores) ==
  /\ phase = "boot"
  /\ lim = l
  /\ jobs \in tables
  /\ boot_jobs = jobs
  /\ boot_ids = {}
  /\ repositories \in stores
  /\ repos_without_readme = {}
  /\ user_stars = [u \in AllUsers |-> [present |-> FALSE, repo_ids |-> <<>>]]
  /\ active_jobs = [u \in AllUsers |-> 0]
  /\ creating = [u \in AllUsers |-> 0]
  /\ overlap = [u \in AllUsers |-> FALSE]
  /\ inserting = {}
  /\ task = [j \in JobIds |-> NoTask]
  /\ stop = [j \in JobIds |-> "none"]
  /\ faults = 0
  /\ search = NoSearch
  /\ ret = NoResult

\* the program with no call of a library function made on its own
InitWith(l, tables, stores) == InitProgram(l, tables, stores) /\ lib = NoCall

\* the orchestrator: both users, overlapping calls, lists of at most one item
Init ==
  InitWith([users |-> {GoodUser, BadUser}, jobs |-> MaxJobs, repos |-> 1, stars |-> 1, least |-> 0,
            faults |-> 1, history |-> FALSE, observe |-> FALSE,
            tally |-> FALSE],
           {<<StaleRow>>}, {Stored({})})

\* the pipeline: one job over lists of up to MaxStars items, with or without
\* repository 1 stored by an earlier run
InitPipeline ==
  InitWith([users |-> {GoodUser}, jobs |-> 1, repos |-> MaxRepos, stars |-> MaxStars, least |-> 0,
            faults |-> MaxFaults, history |-> FALSE, observe |-> FALSE,
            tally |-> FALSE],
           {<<StaleRow>>}, {Stored({}), Stored({1})})

\* start-up: every table of up to MaxBootJobs rows an earlier run may have left
InitBoot ==
  InitWith([users |-> {GoodUser}, jobs |-> 1, repos |-> 1, stars |-> 1, least |-> 0, faults |-> 1,
            history |-> FALSE, observe |-> TRUE,
            tally |-> FALSE],
           BootTables(MaxBootJobs), {Stored({}), Stored({1})})

\* two runs of one user's pipeline, with the history of what each run did
InitRerun ==
  InitWith([users |-> {GoodUser}, jobs |-> MaxJobs, repos |-> 1, stars |-> 1, least |-> 0, faults |-> 1,
            history |-> TRUE, observe |-> FALSE,
            tally |-> FALSE],
           {<<StaleRow>>}, {Stored({})})

\* two users whose lists share an item
InitShared ==
  InitWith([users |-> {GoodUser, OtherUser}, jobs |-> MaxJobs, repos |-> 1, stars |-> 1, least |-> 0,
            faults |-> 1, history |-> FALSE, observe |-> FALSE,
            tally |-> FALSE],
           {<<StaleRow>>}, {Stored({})})

\* two start_job calls of one user, their results and those of get_latest_job
\* observed
InitLatest ==
  InitWith([users |-> {GoodUser}, jobs |-> MaxJobs, repos |-> 1, stars |-> 1, least |-> 0,
            faults |-> 1, history |-> FALSE, observe |-> TRUE,
            tally |-> FALSE],
           {<<StaleRow>>}, {Stored({})})

\* one job over lists of up to two of the MaxRepos items, two of which an
\* earlier run has stored, with semantic_search calls made beside it
InitSearch ==
  InitWith([users |-> {GoodUser}, jobs |-> 1, repos |-> MaxRepos, stars |-> 2, least |-> 0,
            faults |-> 1, history |-> FALSE, observe |-> FALSE,
            tally |-> FALSE],
           {<<StaleRow>>}, {Stored({1, 3})})

\* a server that starts over the items an earlier run has stored and then
\* answers requests to the search handlers
InitHandler ==
  InitWith([users |-> {GoodUser}, jobs |-> 1, repos |-> MaxRepos, stars |-> 1, least |-> 0,
            faults |-> 1, history |-> FALSE, observe |-> FALSE,
            tally |-> FALSE],
           {<<StaleRow>>}, {Stored({1, 3})})

\* one job over lists of up to MaxStars items, with a tally of the upserts
\* the store rejected and of the batches the provider failed
InitCount ==
  InitWith([users |-> {GoodUser}, jobs |-> 1, repos |-> MaxRepos, stars |-> MaxStars, least |-> 0,
            faults |-> MaxFaults, history |-> FALSE, observe |-> FALSE,
            tally |-> TRUE],
           {<<StaleRow>>}, {Stored({}), Stored({1})})

\* two runs of one user's pipeline over the same list of two items
InitRetry ==
  InitWith([users |-> {GoodUser}, jobs |-> MaxJobs, repos |-> 2, stars |-> 2, least |-> 2,
            faults |-> 1, history |-> FALSE, observe |-> FALSE,
            tally |-> FALSE],
           {<<StaleRow>>}, {Stored({})})

\* ------------------------------------------------------------------ initialize
\* a scan whose id collection loses the first row
StaleJobIdsSkipFirst(incomplete_jobs) ==
  incomplete_jobs \ {id \in incomplete_jobs : \A other \in incomplete_jobs : id <= other}

\* job_manager.rs:75: job_ids = incomplete_jobs.iter().map(|job| job.id.unwrap())
StaleJobIds(incomplete_jobs) == incomplete_jobs

InitializeScan ==
  /\ phase = "boot"
  /\ \/ /\ boot_ids' = StaleJobIds(get_incomplete_jobs(jobs))
        /\ phase' = IF boot_ids' # {} THEN "boot_fail" ELSE "serving"
        /\ UNCHANGED faults
     \/ /\ CanFail
        /\ faults' = faults + 1
        /\ phase' = "halted"
        /\ UNCHANGED boot_ids
  /\ UNCHANGED <<lim, search, lib, boot_jobs, jobs, repositories, repos_without_readme, user_stars,
                 active_jobs, creating, overlap, inserting, task, stop>>
  /\ ret' = NoResult

\* JobManager::initialize, the bulk update (job_manager.rs:83)
InitializeFail ==
  /\ phase = "boot_fail"
  /\ \/ /\ jobs' = fail_jobs(jobs, boot_ids)
        /\ phase' = "serving"
        /\ UNCHANGED faults
     \/ /\ CanFail
        /\ faults' = faults + 1
        /\ phase' = "halted"
        /\ UNCHANGED jobs
  /\ UNCHANGED <<lim, search, lib, boot_jobs, boot_ids, repositories, repos_without_readme,
                 user_stars, active_jobs, creating, overlap, inserting, task, stop>>
  /\ ret' = NoResult

\* ------------------------------------------------------------------ start_job
NewJobsSoFar == Len(jobs) - Len(boot_jobs)

\* every variable but ret
Program == <<phase, lim, search, lib, boot_jobs, boot_ids, jobs, repositories, repos_without_readme,
             user_stars, active_jobs, creating, overlap, inserting, task, stop, faults>>

\* the result of a call that changes nothing (one that the registry lookup
\* turned away, a read)
TurnedAway(r) == IF lim.observe THEN r ELSE ret

\* start_job calls suspended at create_job
Creating == creating[GoodUser] + creating[OtherUser] + creating[BadUser]

\* the jobs whose task has run to its end with the row completed
CompletedJobs == {j \in 1..Len(jobs) : jobs[j].status = COMPLETED /\ task[j].st = "finished"}

\* a start_job call for u is between its registry check and its return
InProgress(u) == creating[u] > 0 \/ \E k \in inserting : task[k].user_id = u

\* history: a start_job call for u begins
Begun(u) ==
  IF lim.observe /\ InProgress(u) THEN [overlap EXCEPT ![u] = TRUE] ELSE overlap

\* history: a start_job call for u has returned, leaving in_progress
Returned(u, in_progress) ==
  IF in_progress THEN overlap ELSE [overlap EXCEPT ![u] = FALSE]

\* a registry check that admits a call only while no user has an entry
StartCheckCapped(u) ==
  /\ phase = "serving"
  /\ u \in lim.users
  /\ \A v \in AllUsers : active_jobs[v] = 0
  /\ NewJobsSoFar + Creating < lim.jobs
  /\ creating' = [creating EXCEPT ![u] = @ + 1]
  /\ overlap' = Begun(u)
  /\ UNCHANGED <<phase, lim, search, lib, boot_jobs, boot_ids, jobs, repositories,
                 repos_without_readme, user_stars, active_jobs, inserting, task, stop,
                 faults>>
  /\ ret' = NoResult

\* job_manager.rs:106-108: the registry check; a rejected call returns at once
StartCheck(u) ==
  /\ phase = "serving"
  /\ u \in lim.users
  /\ active_jobs[u] = 0
  /\ NewJobsSoFar + Creating < lim.jobs
  /\ creating' = [creating EXCEPT ![u] = @ + 1]
  /\ overlap' = Begun(u)
  /\ UNCHANGED <<phase, lim, search, lib, boot_jobs, boot_ids, jobs, repositories,
                 repos_without_readme, user_stars, active_jobs, inserting, task, stop,
                 faults>>
  /\ ret' = NoResult

\* job_manager.rs:106-107: Err(JobAlreadyRunning)
StartRejected(u) ==
  /\ phase = "serving"
  /\ u \in lim.users
  /\ active_jobs[u] # 0
  /\ ret' = TurnedAway(StartErr(u, "JobAlreadyRunning"))
  /\ UNCHANGED Program

\* a start_job that spawns the task although create_job failed
StartCreateErrSpawns(u) ==
  /\ task' = [task EXCEPT ![Len(jobs) + 1] = SpawnedTask(u)]
  /\ inserting' = inserting \cup {Len(jobs) + 1}
  /\ ret' = StartErr(u, "DatabaseError")
  /\ UNCHANGED jobs

\* job_manager.rs:113: the `?` on create_job, Err(DatabaseError)
StartCreateErr(u) ==
  /\ ret' = StartErr(u, "DatabaseError")
  /\ UNCHANGED <<jobs, task, inserting>>

\* job_manager.rs:113-148: create_job returns, the task is spawned
StartCreate(u) ==
  /\ phase = "serving"
  /\ u \in lim.users
  /\ creating[u] > 0
  /\ creating' = [creating EXCEPT ![u] = @ - 1]
  /\ \/ /\ jobs' = create_job(jobs, u)
        /\ task' = [task EXCEPT
                      ![Len(jobs')] = IF lim.history
                                      THEN [SpawnedTask(u) EXCEPT !.prior = CompletedJobs,
                                                                  !.clean = (faults = 0)]
                                      ELSE SpawnedTask(u)]
        /\ inserting' = inserting \cup {Len(jobs')}
        /\ ret' = NoResult
        /\ UNCHANGED faults
     \/ /\ CanFail
        /\ faults' = faults + 1
        /\ StartCreateErr(u)
  /\ overlap' = Returned(u, creating'[u] > 0 \/ \E k \in inserting' : task'[k].user_id = u)
  /\ UNCHANGED <<phase, lim, search, lib, boot_jobs, boot_ids, repositories, repos_without_readme,
                 user_stars, active_jobs, stop>>

\* job_manager.rs:151-153: active_jobs.insert(user_id, (job_id, handle)); Ok(job_id)
StartInsert(j) ==
  /\ phase = "serving"
  /\ j \in inserting
  /\ inserting' = inserting \ {j}
  /\ active_jobs' = [active_jobs EXCEPT ![task[j].user_id] = j]
  /\ ret' = StartOk(task[j].user_id, j)
  /\ task' = IF lim.observe THEN [task EXCEPT ![j].solo = ~overlap[task[j].user_id]] ELSE task
  /\ overlap' = Returned(task[j].user_id,
                         \/ creating[task[j].user_id] > 0
                         \/ \E k \in inserting' : task[k].user_id = task[j].user_id)
  /\ UNCHANGED <<phase, lim, search, lib, boot_jobs, boot_ids, jobs, repositories,
                 repos_without_readme, user_stars, creating, stop, faults>>

\* ------------------------------------------------------------------ process_user_stars
\* every variable but the store's job table, the task table and the fault count
TaskFrame == <<phase, lim, search, lib, boot_jobs, boot_ids, active_jobs, creating, overlap, inserting, stop>>
StoreFrame == <<repositories, repos_without_readme, user_stars>>

\* `?` on a failed call: process_user_stars returns Err, the closure logs it
ReturnErr(t, at) == [t EXCEPT !.pc = "exit", !.err = at]

\* job_manager.rs:169-171
FetchingStatus(j) ==
  /\ Running(j) /\ task[j].pc = "status_fetching"
  /\ \/ /\ jobs' = update_job_status(jobs, j, FETCHING)
        /\ task' = [task EXCEPT ![j].pc = "fetch"]
        /\ UNCHANGED faults
     \/ /\ CanFail
        /\ faults' = faults + 1
        /\ task' = [task EXCEPT ![j] = ReturnErr(@, "status_fetching")]
        /\ UNCHANGED jobs
  /\ UNCHANGED <<TaskFrame, StoreFrame>>
  /\ ret' = NoResult

\* job_manager.rs:174-178
FetchStars(j) ==
  /\ Running(j) /\ task[j].pc = "fetch"
  /\ \/ /\ \E l \in StarLists :
             task' = [task EXCEPT ![j].pc = "progress_total", ![j].starred_repos = l]
        /\ UNCHANGED faults
     \/ /\ CanFail
        /\ faults' = faults + 1
        /\ task' = [task EXCEPT ![j] = ReturnErr(@, "fetch")]
  /\ UNCHANGED <<jobs, TaskFrame, StoreFrame>>
  /\ ret' = NoResult

\* a task that goes on without recording the total
ProgressTotalNoWrite(j) ==
  /\ Running(j) /\ task[j].pc = "progress_total"
  /\ task' = [task EXCEPT ![j].pc = "status_creating"]
  /\ UNCHANGED <<jobs, faults, TaskFrame, StoreFrame>>
  /\ ret' = NoResult

\* job_manager.rs:186-188
ProgressTotal(j) ==
  /\ Running(j) /\ task[j].pc = "progress_total"
  /\ \/ /\ jobs' = update_job_progress(jobs, j, Len(task[j].starred_repos), 0, 0)
        /\ task' = [task EXCEPT ![j].pc = "status_creating"]
        /\ UNCHANGED faults
     \/ /\ CanFail
        /\ faults' = faults + 1
        /\ task' = [task EXCEPT ![j] = ReturnErr(@, "progress_total")]
        /\ UNCHANGED jobs
  /\ UNCHANGED <<TaskFrame, StoreFrame>>
  /\ ret' = NoResult

\* job_manager.rs:197 (user_id.try_into().unwrap()) and
\* semantic_search_manager.rs:72-80: where the task stands once the status is written
EnterGenerate(t) ==
  IF t.user_id < 0 THEN Ended([t EXCEPT !.pc = "generate"], "panicked")
  ELSE IF t.starred_repos = <<>> THEN [t EXCEPT !.pc = "complete"]
  ELSE [t EXCEPT !.pc = "existing"]

\* job_manager.rs:189-191
CreatingStatus(j) ==
  /\ Running(j) /\ task[j].pc = "status_creating"
  /\ \/ /\ jobs' = update_job_status(jobs, j, CREATING)
        /\ task' = [task EXCEPT ![j] = EnterGenerate(@)]
        /\ UNCHANGED faults
     \/ /\ CanFail
        /\ faults' = faults + 1
        /\ task' = [task EXCEPT ![j] = ReturnErr(@, "status_creating")]
        /\ UNCHANGED jobs
  /\ UNCHANGED <<TaskFrame, StoreFrame>>
  /\ ret' = NoResult

\* ------------------------------------------------------------------ generate_and_store_embeddings
\* the outer batch that starts at index bi: repos_to_process.chunks(BATCH_SIZE)
Batch(t) ==
  SubSeq(t.repos_to_process, t.bi, Min(t.bi + BATCH_SIZE - 1, Len(t.repos_to_process)))

\* semantic_search_manager.rs:45-57, 78-80, 88
FindReposNeedingEmbeddings(j) ==
  /\ Running(j) /\ task[j].pc = "existing"
  /\ \/ /\ LET needs == SelectNotIn(task[j].starred_repos,
                                    existing_repos(task[j].starred_repos))
           IN task' = [task EXCEPT ![j].repos_to_process = needs,
                                   ![j].pc = IF needs = <<>> THEN "progress_all" ELSE "readme",
                                   ![j].bi = IF needs = <<>> THEN 0 ELSE 1,
                                   ![j].ri = IF needs = <<>> THEN 0 ELSE 1]
        /\ UNCHANGED faults
     \/ /\ CanFail
        /\ faults' = faults + 1
        /\ task' = [task EXCEPT ![j].pc = "err_progress", ![j].err = "existing"]
  /\ UNCHANGED <<jobs, TaskFrame, StoreFrame>>
  /\ ret' = NoResult

\* semantic_search_manager.rs:94-103: a failed write is only logged
ProgressAllExisting(j) ==
  /\ Running(j) /\ task[j].pc = "progress_all"
  /\ \/ /\ jobs' = update_job_progress(jobs, j, Len(task[j].starred_repos),
                                        Len(task[j].starred_repos), 0)
        /\ UNCHANGED faults
     \/ /\ CanFail
        /\ faults' = faults + 1
        /\ UNCHANGED jobs
  /\ task' = [task EXCEPT ![j].pc = "gs_user"]
  /\ UNCHANGED <<TaskFrame, StoreFrame>>
  /\ ret' = NoResult

\* history: the store rejected the upsert of the pair the task is at
Lost(t) == IF lim.tally THEN [t EXCEPT !.lost = @ + 1] ELSE t

\* history: the embedding call of the outer batch the task is at failed
Dropped(t) ==
  IF lim.tally THEN [t EXCEPT !.dropped = @ \cup Range(t.processed_repos)] ELSE t

\* a batch that reports every item it was given
BatchOkCountsBatch(t) ==
  [t EXCEPT !.processed_count = @ + Len(Batch(t)), !.pc = "progress_batch",
            !.ri = 0, !.processed_repos = <<>>, !.embeddings = <<>>]

\* semantic_search_manager.rs:115-116, 279: the batch returned Ok(processed_repos.len())
BatchOk(t) ==
  [t EXCEPT !.processed_count = @ + Len(t.processed_repos), !.pc = "progress_batch",
            !.ri = 0, !.processed_repos = <<>>, !.embeddings = <<>>]

\* a failure count that charges a full chunk whatever the batch holds
BatchFailedCountFullChunk(t) == t.failed_count + BATCH_SIZE

\* semantic_search_manager.rs:142-143: the batch returned Err
BatchFailedCount(t) == t.failed_count + Len(Batch(t))

\* a batch failure that still stores the items embedded before it
BatchErrStoresEmbedded(t) ==
  IF t.embeddings = <<>>
  THEN [t EXCEPT !.failed_count = BatchFailedCount(t), !.pc = "progress_batch",
                 !.ri = 0, !.processed_repos = <<>>, !.embeddings = <<>>]
  ELSE [t EXCEPT !.failed_count = BatchFailedCount(t), !.pc = "upsert", !.ri = 1]

\* a batch failure that ends the loop
BatchErrEndsLoop(t) ==
  [t EXCEPT !.failed_count = BatchFailedCount(t), !.pc = "progress_batch",
            !.ri = 0, !.processed_repos = <<>>, !.embeddings = <<>>,
            !.bi = Len(t.repos_to_process)]

BatchErr(t) ==
  [t EXCEPT !.failed_count = BatchFailedCount(t), !.pc = "progress_batch",
            !.ri = 0, !.processed_repos = <<>>, !.embeddings = <<>>]

\* semantic_search_manager.rs:260-267 with openai.rs:71-73: where the task stands
\* once every README task of the batch is joined
AfterReadmes(t) ==
  IF t.ri < Len(Batch(t)) THEN [t EXCEPT !.ri = @ + 1]
  ELSE IF t.processed_repos = <<>> THEN BatchOk(t)
  ELSE [t EXCEPT !.pc = "embed", !.ri = 0]

\* semantic_search_manager.rs:189-258: join the README task of item ri
ReadmeJoin(j) ==
  /\ Running(j) /\ task[j].pc = "readme"
  /\ LET t == task[j]
         id == Batch(t)[t.ri]
     IN \/ /\ task' = [task EXCEPT
                         ![j] = AfterReadmes([t EXCEPT !.processed_repos = Append(@, id)])]
           /\ UNCHANGED <<repos_without_readme, faults>>
        \/ /\ repos_without_readme' = insert_repo_without_readme(repos_without_readme, id)
           /\ task' = [task EXCEPT ![j] = AfterReadmes(t)]
           /\ UNCHANGED faults
        \/ /\ CanFail
           /\ faults' = faults + 1
           /\ task' = [task EXCEPT ![j] = AfterReadmes(t)]
           /\ UNCHANGED repos_without_readme
  /\ UNCHANGED <<jobs, repositories, user_stars, TaskFrame>>
  /\ ret' = NoResult

\* openai.rs:91-94, 101-139: one provider call for the next sub-batch of texts
GetEmbeddingsBatch(j) ==
  /\ Running(j) /\ task[j].pc = "embed"
  /\ LET t == task[j]
         from == Len(t.embeddings) + 1
         to == Min(Len(t.embeddings) + EMBED_BATCH_SIZE, Len(t.processed_repos))
         got == t.embeddings \o [i \in 1..(to - from + 1) |->
                                   Embedding(t.processed_repos[from + i - 1])]
         sent == [t EXCEPT !.calls = @ + 1]
     IN \/ /\ task' = [task EXCEPT
                         ![j] = IF to = Len(t.processed_repos)
                                THEN [sent EXCEPT !.embeddings = got, !.pc = "upsert", !.ri = 1]
                                ELSE [sent EXCEPT !.embeddings = got]]
           /\ UNCHANGED faults
        \/ /\ CanFail
           /\ faults' = faults + 1
           /\ task' = [task EXCEPT ![j] = BatchErr(Dropped(sent))]
  /\ UNCHANGED <<jobs, TaskFrame, StoreFrame>>
  /\ ret' = NoResult

\* a loop over the pairs that ends at the first pair
AfterUpsertEndsBatch(t) == BatchOk(t)

\* semantic_search_manager.rs:270, 279: the next pair of the zip, or Ok(len)
AfterUpsert(t) ==
  IF t.ri < Min(Len(t.processed_repos), Len(t.embeddings))
  THEN [t EXCEPT !.ri = @ + 1] ELSE BatchOk(t)

\* a loop that pairs the vectors with the items of the chunk, not with those
\* that obtained content
StoreRepositoryByChunkPosition(j) ==
  /\ Running(j) /\ task[j].pc = "upsert"
  /\ LET t == task[j]
     IN /\ repositories' = upsert_repository(repositories, Batch(t)[t.ri], t.embeddings[t.ri])
        /\ task' = [task EXCEPT ![j] = AfterUpsert(t)]
        /\ UNCHANGED faults
  /\ UNCHANGED <<jobs, repos_without_readme, user_stars, TaskFrame>>
  /\ ret' = NoResult

\* semantic_search_manager.rs:270-279: upsert pair ri of zip(processed_repos, embeddings)
StoreRepository(j) ==
  /\ Running(j) /\ task[j].pc = "upsert"
  /\ LET t == task[j]
     IN \/ /\ repositories' =
                upsert_repository(repositories, t.processed_repos[t.ri], t.embeddings[t.ri])
           /\ task' = [task EXCEPT ![j] = AfterUpsert(t)]
           /\ UNCHANGED faults
        \/ /\ CanFail
           /\ faults' = faults + 1
           /\ task' = [task EXCEPT ![j] = AfterUpsert(Lost(t))]
           /\ UNCHANGED repositories
  /\ UNCHANGED <<jobs, repos_without_readme, user_stars, TaskFrame>>
  /\ ret' = NoResult

\* a processed total that takes in the items of the batches that failed
TotalProcessedWithFailed(t) ==
  (Len(t.starred_repos) - Len(t.repos_to_process)) + t.processed_count + t.failed_count

\* a processed total that leaves out the items found by the lookup
TotalProcessedNewOnly(t) == t.processed_count

\* semantic_search_manager.rs:121-122, 147-148
TotalProcessed(t) ==
  (Len(t.starred_repos) - Len(t.repos_to_process)) + t.processed_count

\* a loop that ends after its first chunk
NextBatchOnlyFirst(t) == [t EXCEPT !.bi = 0, !.pc = "gs_user"]

\* semantic_search_manager.rs:110: the next chunk, or the end of the loop
NextBatch(t) ==
  IF t.bi + BATCH_SIZE <= Len(t.repos_to_process)
  THEN [t EXCEPT !.bi = @ + BATCH_SIZE, !.ri = 1, !.pc = "readme"]
  ELSE [t EXCEPT !.bi = 0, !.pc = "gs_user"]

\* semantic_search_manager.rs:124-140, 150-161: a failed write is only logged
ProgressBatch(j) ==
  /\ Running(j) /\ task[j].pc = "progress_batch"
  /\ \/ /\ jobs' = update_job_progress(jobs, j, Len(task[j].starred_repos),
                                        TotalProcessed(task[j]), task[j].failed_count)
        /\ UNCHANGED faults
     \/ /\ CanFail
        /\ faults' = faults + 1
        /\ UNCHANGED jobs
  /\ task' = [task EXCEPT ![j] = NextBatch(@)]
  /\ UNCHANGED <<TaskFrame, StoreFrame>>
  /\ ret' = NoResult

\* semantic_search_manager.rs:305 (update_user_stars: get_authenticated_user)
GenerateGetUser(j) ==
  /\ Running(j) /\ task[j].pc = "gs_user"
  /\ \/ /\ task' = [task EXCEPT ![j].pc = "gs_stars"]
        /\ UNCHANGED faults
     \/ /\ CanFail
        /\ faults' = faults + 1
        /\ task' = [task EXCEPT ![j].pc = "err_progress", ![j].err = "gs_user"]
  /\ UNCHANGED <<jobs, TaskFrame, StoreFrame>>
  /\ ret' = NoResult

\* semantic_search_manager.rs:310-312, 174-177
GenerateUpdateUserStars(j) ==
  /\ Running(j) /\ task[j].pc = "gs_stars"
  /\ \/ /\ user_stars' = update_user_stars(user_stars, task[j].user_id, task[j].starred_repos)
        /\ task' = [task EXCEPT ![j].pc = "ps_user"]
        /\ UNCHANGED faults
     \/ /\ CanFail
        /\ faults' = faults + 1
        /\ task' = [task EXCEPT ![j].pc = "err_progress", ![j].err = "gs_stars"]
        /\ UNCHANGED user_stars
  /\ UNCHANGED <<jobs, repositories, repos_without_readme, TaskFrame>>
  /\ ret' = NoResult

\* ------------------------------------------------------------------ process_user_stars, the tail
\* job_manager.rs:214-219: the counters written when generate_and_store_embeddings failed
ErrProgressCounters(t) == <<Len(t.starred_repos), 0, Len(t.starred_repos)>>

\* job_manager.rs:212-221
ErrProgress(j) ==
  /\ Running(j) /\ task[j].pc = "err_progress"
  /\ \/ /\ LET c == ErrProgressCounters(task[j])
           IN jobs' = update_job_progress(jobs, j, c[1], c[2], c[3])
        /\ task' = [task EXCEPT ![j].pc = "err_fail"]
        /\ UNCHANGED faults
     \/ /\ CanFail
        /\ faults' = faults + 1
        /\ task' = [task EXCEPT ![j] = ReturnErr(@, "err_progress")]
        /\ UNCHANGED jobs
  /\ UNCHANGED <<TaskFrame, StoreFrame>>
  /\ ret' = NoResult

\* job_manager.rs:222-223
ErrFailJob(j) ==
  /\ Running(j) /\ task[j].pc = "err_fail"
  /\ \/ /\ jobs' = fail_job(jobs, j)
        /\ task' = [task EXCEPT ![j].pc = "exit"]
        /\ UNCHANGED faults
     \/ /\ CanFail
        /\ faults' = faults + 1
        /\ task' = [task EXCEPT ![j] = ReturnErr(@, "err_fail")]
        /\ UNCHANGED jobs
  /\ UNCHANGED <<TaskFrame, StoreFrame>>
  /\ ret' = NoResult

\* job_manager.rs:231-234
GetAuthenticatedUser(j) ==
  /\ Running(j) /\ task[j].pc = "ps_user"
  /\ \/ /\ task' = [task EXCEPT ![j].pc = "ps_stars"]
        /\ UNCHANGED faults
     \/ /\ CanFail
        /\ faults' = faults + 1
        /\ task' = [task EXCEPT ![j] = ReturnErr(@, "ps_user")]
  /\ UNCHANGED <<jobs, TaskFrame, StoreFrame>>
  /\ ret' = NoResult

\* job_manager.rs:236-238
UpdateUserStars(j) ==
  /\ Running(j) /\ task[j].pc = "ps_stars"
  /\ \/ /\ user_stars' = update_user_stars(user_stars, task[j].user_id, task[j].starred_repos)
        /\ task' = [task EXCEPT ![j].pc = "complete"]
        /\ UNCHANGED faults
     \/ /\ CanFail
        /\ faults' = faults + 1
        /\ task' = [task EXCEPT ![j] = ReturnErr(@, "ps_stars")]
        /\ UNCHANGED user_stars
  /\ UNCHANGED <<jobs, repositories, repos_without_readme, TaskFrame>>
  /\ ret' = NoResult

\* job_manager.rs:248
CompleteJob(j) ==
  /\ Running(j) /\ task[j].pc = "complete"
  /\ \/ /\ jobs' = complete_job(jobs, j)
        /\ task' = [task EXCEPT ![j].pc = "exit"]
        /\ UNCHANGED faults
     \/ /\ CanFail
        /\ faults' = faults + 1
        /\ task' = [task EXCEPT ![j] = ReturnErr(@, "complete")]
        /\ UNCHANGED jobs
  /\ UNCHANGED <<TaskFrame, StoreFrame>>
  /\ ret' = NoResult

\* job_manager.rs:137-147: the closure's epilogue, active_jobs.remove(&user_id)
TaskExit(j) ==
  /\ Running(j) /\ task[j].pc = "exit"
  /\ active_jobs' = [active_jobs EXCEPT ![task[j].user_id] = 0]
  /\ task' = [task EXCEPT ![j] = Ended(@, "finished")]
  /\ UNCHANGED <<phase, lim, search, lib, boot_jobs, boot_ids, jobs, creating, overlap, inserting, stop, faults,
                 StoreFrame>>
  /\ ret' = NoResult

\* ------------------------------------------------------------------ stop_job
\* job_manager.rs:261: active_jobs.remove(&user_id) found the entry
StopRemove(u) ==
  /\ phase = "serving"
  /\ u \in lim.users
  /\ active_jobs[u] # 0
  /\ stop' = [stop EXCEPT ![active_jobs[u]] = "abort"]
  /\ active_jobs' = [active_jobs EXCEPT ![u] = 0]
  /\ UNCHANGED <<phase, lim, search, lib, boot_jobs, boot_ids, jobs, creating, overlap, inserting, task, faults,
                 StoreFrame>>
  /\ ret' = NoResult

\* a stop_job that, finding no entry, fails the user's jobs
StopNotFoundFailsJobs(u) ==
  /\ phase = "serving"
  /\ u \in lim.users
  /\ active_jobs[u] = 0
  /\ ret' = TurnedAway(StopErr(u, "JobNotFound"))
  /\ jobs' = [id \in 1..Len(jobs) |->
                IF jobs[id].user_id = u THEN fail_job(jobs, id)[id] ELSE jobs[id]]
  /\ UNCHANGED <<phase, lim, search, lib, boot_jobs, boot_ids, repositories, repos_without_readme,
                 user_stars, active_jobs, creating, overlap, inserting, task, stop, faults>>

\* job_manager.rs:285-287: Err(JobNotFound)
StopNotFound(u) ==
  /\ phase = "serving"
  /\ u \in lim.users
  /\ active_jobs[u] = 0
  /\ ret' = TurnedAway(StopErr(u, "JobNotFound"))
  /\ UNCHANGED Program

\* JoinHandle::abort: a task suspended at an await is dropped there; a task
\* that is past its last await, or has ended, is not affected
AbortTask(t) ==
  IF t.st = "running" /\ t.pc # "exit" THEN Ended(t, "cancelled") ELSE t

\* job_manager.rs:263
StopAbort(j) ==
  /\ phase = "serving"
  /\ stop[j] = "abort"
  /\ task' = [task EXCEPT ![j] = AbortTask(@)]
  /\ stop' = [stop EXCEPT ![j] = "join"]
  /\ UNCHANGED <<phase, lim, search, lib, boot_jobs, boot_ids, jobs, active_jobs, creating, overlap, inserting,
                 faults, StoreFrame>>
  /\ ret' = NoResult

\* a stop_job that does not wait for the task it aborted
StopJoinNoWait(j) ==
  /\ phase = "serving"
  /\ stop[j] = "join"
  /\ stop' = [stop EXCEPT ![j] = IF task[j].st = "panicked" THEN "returned" ELSE "fail"]
  /\ ret' = IF task[j].st = "panicked" THEN StopOk(task[j].user_id) ELSE NoResult
  /\ UNCHANGED <<phase, lim, search, lib, boot_jobs, boot_ids, jobs, active_jobs, creating, overlap, inserting,
                 task, faults, StoreFrame>>

\* job_manager.rs:266-282: handle.await resolves once the task has ended;
\* only Ok and a cancelled JoinError lead to fail_job
StopJoin(j) ==
  /\ phase = "serving"
  /\ stop[j] = "join"
  /\ task[j].st \in {"finished", "cancelled", "panicked"}
  /\ stop' = [stop EXCEPT ![j] = IF task[j].st = "panicked" THEN "returned" ELSE "fail"]
  /\ ret' = IF task[j].st = "panicked" THEN StopOk(task[j].user_id) ELSE NoResult
  /\ UNCHANGED <<phase, lim, search, lib, boot_jobs, boot_ids, jobs, active_jobs, creating, overlap, inserting,
                 task, faults, StoreFrame>>

\* job_manager.rs:270-272, 277-279, 284: a failed write is only logged; Ok(())
StopFailJob(j) ==
  /\ phase = "serving"
  /\ stop[j] = "fail"
  /\ \/ /\ jobs' = fail_job(jobs, j)
        /\ UNCHANGED faults
     \/ /\ CanFail
        /\ faults' = faults + 1
        /\ UNCHANGED jobs
  /\ stop' = [stop EXCEPT ![j] = "returned"]
  /\ ret' = StopOk(task[j].user_id)
  /\ UNCHANGED <<phase, lim, search, lib, boot_jobs, boot_ids, active_jobs, creating, overlap, inserting, task,
                 StoreFrame>>

\* ------------------------------------------------------------------ repo_to_embedding_text
\* every variable a library call made on its own leaves alone
LibFrame == <<phase, lim, search, boot_jobs, boot_ids, jobs, repositories, repos_without_readme,
              user_stars, active_jobs, creating, overlap, inserting, task, stop, faults, ret>>

\* the length up to which a README goes into the text whole
README_LIMIT == 2000

\* the README lengths tried lie up to ReadmeSpread below and above the limit
ReadmeSpread == 10

ReadmeLengths ==
  {0, 1, 1500, 2500} \cup ((README_LIMIT - ReadmeSpread)..(README_LIMIT + ReadmeSpread))

\* a README of n chars whose first k are one char and whose others are another
Readme(n, k) == [i \in 1..n |-> IF i <= k THEN "a" ELSE "b"]

\* repo.readme_content: Option<String>, <<>> for None and <<readme>> for Some
ReadmeContents ==
  {<<>>} \cup {<<Readme(n, k)>> : n \in ReadmeLengths, k \in {0, README_LIMIT, README_LIMIT + 1}}

\* the literal "..."
Ellipsis == <<".", ".", ".">>

\* readme.chars().take(n).collect()
Take(s, n) == SubSeq(s, 1, Min(n, Len(s)))

\* a cut that also takes the README of exactly the limit
truncated_readme_from_limit(readme_content) ==
  IF readme_content = <<>> THEN <<"N", "o", "n", "e">>
  ELSE IF Len(readme_content[1]) >= README_LIMIT
       THEN Take(readme_content[1], README_LIMIT) \o Ellipsis
       ELSE readme_content[1]

\* semantic_search_manager.rs:421-430 (and openai.rs:165-171): the README as
\* it goes into the text built for the provider
truncated_readme(readme_content) ==
  IF readme_content = <<>> THEN <<"N", "o", "n", "e">>
  ELSE IF Len(readme_content[1]) > README_LIMIT
       THEN Take(readme_content[1], README_LIMIT) \o Ellipsis
       ELSE readme_content[1]

\* semantic_search_manager.rs:411-444: the call returns
RepoToEmbeddingText ==
  /\ lib.fn = "repo_to_embedding_text" /\ lib.pc = "called"
  /\ lib' = [lib EXCEPT !.pc = "returned",
                        !.truncated_readme = truncated_readme(lib.readme_content)]
  /\ UNCHANGED LibFrame

\* no job, no fault: the program stands still while the library call is made
LibLimits ==
  [users |-> {GoodUser}, jobs |-> 0, repos |-> 1, stars |-> 0, least |-> 0, faults |-> 0,
   history |-> FALSE, observe |-> FALSE, tally |-> FALSE]

\* repo_to_embedding_text called with each of the READMEs
InitText ==
  /\ InitProgram(LibLimits, {<<StaleRow>>}, {Stored({})})
  /\ lib \in {[fn |-> "repo_to_embedding_text", pc |-> "called", readme_content |-> c,
               truncated_readme |-> <<>>] : c \in ReadmeContents}

SpecText == InitText /\ [][RepoToEmbeddingText]_vars

\* ------------------------------------------------------------------ get_embeddings
\* const BATCH_SIZE of get_embeddings as the source has it; the runs of
\* get_embeddings on its own use it, the runs of the pipeline use the
\* scaled-down EMBED_BATCH_SIZE
PROVIDER_BATCH_SIZE == 4

\* longest list of texts get_embeddings is called with
MaxTexts == 9

\* text i of a list: one char, which differs from text to text
Text(i) == <<i>>

\* the lists of texts: n different texts, and the same with one of them empty
TextLists ==
  {[i \in 1..n |-> Text(i)] : n \in 0..MaxTexts}
    \cup {[i \in 1..n |-> IF i = e THEN <<>> ELSE Text(i)] : n \in 1..MaxTexts, e \in 1..MaxTexts}

\* the vector the provider returns for a text (as Embedding, one per text)
TextVector(text) == Embedding(text[1])

\* a chunk that takes all the texts left
texts_chunk_rest(texts, at) == SubSeq(texts, at, Len(texts))

\* openai.rs:91: texts.chunks(BATCH_SIZE), the chunk that starts at index at
texts_chunk(texts, at) == SubSeq(texts, at, Min(at + PROVIDER_BATCH_SIZE - 1, Len(texts)))

GetEmbeddingsReturn(c, result, vectors) ==
  [c EXCEPT !.pc = "returned", !.result = result, !.returned = vectors]

\* openai.rs:71-82: the empty list, then the validation of every text
GetEmbeddingsEnter ==
  /\ lib.fn = "get_embeddings" /\ lib.pc = "called"
  /\ lib' = IF lib.texts = <<>> THEN GetEmbeddingsReturn(lib, "Ok", <<>>)
            ELSE IF \E i \in 1..Len(lib.texts) : lib.texts[i] = <<>>
                 THEN GetEmbeddingsReturn(lib, "ValidationError", <<>>)
                 ELSE [lib EXCEPT !.pc = "batch", !.at = 1]
  /\ UNCHANGED LibFrame

\* openai.rs:91-94 with get_embeddings_batch (101-139): one request for the
\* next chunk; the provider answers it with one vector per text in the order
\* of the texts, or with an error, or with another number of vectors
GetEmbeddingsChunk ==
  /\ lib.fn = "get_embeddings" /\ lib.pc = "batch"
  /\ LET batch == texts_chunk(lib.texts, lib.at)
         sent == [lib EXCEPT !.requests = Append(@, batch)]
         all_embeddings == lib.all_embeddings \o [i \in 1..Len(batch) |-> TextVector(batch[i])]
     IN \/ lib' = IF lib.at + Len(batch) > Len(lib.texts)
                  THEN GetEmbeddingsReturn([sent EXCEPT !.all_embeddings = all_embeddings],
                                           "Ok", all_embeddings)
                  ELSE [sent EXCEPT !.all_embeddings = all_embeddings,
                                    !.at = @ + Len(batch)]
        \/ lib' = GetEmbeddingsReturn(sent, "ApiError", <<>>)
        \/ lib' = GetEmbeddingsReturn(sent, "ValidationError", <<>>)
  /\ UNCHANGED LibFrame

\* get_embeddings called with each of the lists
InitEmbed ==
  /\ InitProgram(LibLimits, {<<StaleRow>>}, {Stored({})})
  /\ lib \in {[fn |-> "get_embeddings", pc |-> "called", texts |-> texts, at |-> 0,
               requests |-> <<>>, all_embeddings |-> <<>>, result |-> "none",
               returned |-> <<>>] : texts \in TextLists}

EmbedNext == GetEmbeddingsEnter \/ GetEmbeddingsChunk

SpecEmbed == InitEmbed /\ [][EmbedNext]_vars

\* ------------------------------------------------------------------ semantic_search
\* every variable a semantic_search call leaves alone
SearchFrame == <<phase, lim, lib, boot_jobs, boot_ids, jobs, repositories, repos_without_readme,
                 user_stars, active_jobs, creating, overlap, inserting, task, stop>>

SearchDone(c, result, results) == [c EXCEPT !.pc = "done", !.result = result, !.results = results]

\* a validation that looks at top_k before it looks at the query
EnterSearchTopKFirst(c) ==
  IF c.top_k = 0 THEN SearchDone(c, "Ok", <<>>)
  ELSE IF c.query = <<>> THEN SearchDone(c, "ValidationError", <<>>)
  ELSE IF c.scope = "global" THEN [c EXCEPT !.pc = "embed"]
  ELSE [c EXCEPT !.pc = "stars"]

\* semantic_search_manager.rs:330-341, 355-357: where the call stands at its first await
EnterSearch(c) ==
  IF c.query = <<>> THEN SearchDone(c, "ValidationError", <<>>)
  ELSE IF c.top_k = 0 THEN SearchDone(c, "Ok", <<>>)
  ELSE IF c.scope = "global" THEN [c EXCEPT !.pc = "embed"]
  ELSE [c EXCEPT !.pc = "stars"]

\* a call that goes on to its scope's arm whenever the query is not empty
SemanticSearchNoShortCircuit(query, top_k, scope, user_id) ==
  /\ phase = "serving"
  /\ search.pc \in {"idle", "done"}
  /\ user_id \in lim.users
  /\ scope = "global" => user_id = GoodUser
  /\ search' = LET c == [NoSearch EXCEPT !.query = query, !.top_k = top_k, !.scope = scope,
                                        !.user_id = IF scope = "starred" THEN user_id ELSE 0]
               IN IF query = <<>> THEN SearchDone(c, "ValidationError", <<>>)
                  ELSE IF scope = "global" THEN [c EXCEPT !.pc = "embed"]
                  ELSE [c EXCEPT !.pc = "stars"]
  /\ UNCHANGED <<SearchFrame, faults>>
  /\ ret' = NoResult

\* semantic_search_manager.rs:323-341: a call with its arguments
SemanticSearch(query, top_k, scope, user_id) ==
  /\ phase = "serving"
  /\ search.pc \in {"idle", "done"}
  /\ user_id \in lim.users
  /\ scope = "global" => user_id = GoodUser
  /\ search' = EnterSearch([NoSearch EXCEPT !.query = query, !.top_k = top_k,
                                           !.scope = scope,
                                           !.user_id = IF scope = "starred" THEN user_id ELSE 0])
  /\ UNCHANGED <<SearchFrame, faults>>
  /\ ret' = NoResult

\* a membership check that goes on whatever it read
AfterStarsAlwaysEmbeds(c) == [c EXCEPT !.pc = "embed"]

\* semantic_search_manager.rs:358-361
AfterStars(c) ==
  IF c.starred_repo_ids = <<>> THEN SearchDone(c, "Ok", <<>>)
  ELSE [c EXCEPT !.pc = "embed"]

\* a membership read that leaves a row behind for a user who had none
SearchReadStarsCreatesRow ==
  /\ phase = "serving" /\ search.pc = "stars"
  /\ search' = AfterStars([search EXCEPT
                             !.starred_repo_ids =
                               get_user_starred_repo_ids_by_string(search.user_id),
                             !.reads = @ + 1])
  /\ user_stars' = [user_stars EXCEPT ![search.user_id].present = TRUE]
  /\ UNCHANGED <<phase, lim, lib, boot_jobs, boot_ids, jobs, repositories, repos_without_readme,
                 active_jobs, creating, overlap, inserting, task, stop, faults>>
  /\ ret' = NoResult

\* semantic_search_manager.rs:357: get_user_starred_repo_ids_by_string
SearchReadStars ==
  /\ phase = "serving" /\ search.pc = "stars"
  /\ \/ /\ search' =
             AfterStars([search EXCEPT
                           !.starred_repo_ids = get_user_starred_repo_ids_by_string(search.user_id),
                           !.reads = @ + 1])
        /\ UNCHANGED faults
     \/ /\ CanFail
        /\ faults' = faults + 1
        /\ search' = SearchDone([search EXCEPT !.reads = @ + 1], "DatabaseError", <<>>)
  /\ UNCHANGED SearchFrame
  /\ ret' = NoResult

\* semantic_search_manager.rs:347, 363: embedding_service.get_embedding(query, api_key)
SearchGetEmbedding ==
  /\ phase = "serving" /\ search.pc = "embed"
  /\ \/ /\ \E v \in QueryVectors :
             search' = [search EXCEPT !.query_embedding = v, !.calls = @ + 1, !.pc = "rank"]
        /\ UNCHANGED faults
     \/ /\ CanFail
        /\ faults' = faults + 1
        /\ search' = SearchDone([search EXCEPT !.calls = @ + 1], "EmbeddingError", <<>>)
  /\ UNCHANGED SearchFrame
  /\ ret' = NoResult

\* semantic_search_manager.rs:349-354, 365-373: the ranking query
SearchRank ==
  /\ phase = "serving" /\ search.pc = "rank"
  /\ \/ /\ \E rows \in IF search.scope = "global"
                       THEN semantic_search_repositories(search.query_embedding, search.top_k)
                       ELSE semantic_search_starred_repositories(
                              search.query_embedding, search.user_id, search.top_k) :
             search' = SearchDone([search EXCEPT !.ranked = @ + 1], "Ok", rows)
        /\ UNCHANGED faults
     \/ /\ CanFail
        /\ faults' = faults + 1
        /\ search' = SearchDone([search EXCEPT !.ranked = @ + 1], "DatabaseError", <<>>)
  /\ UNCHANGED SearchFrame
  /\ ret' = NoResult

\* ------------------------------------------------------------------ the search handlers
\* params.top_k.unwrap_or(10) and the upper limit of top_k
DEFAULT_TOP_K == 10
MAX_TOP_K == 50

\* the crates that hold a search handler: src/backend (handle_semantic_search)
\* and src/backend-rust (semantic_search_handler, semantic_search_global_handler)
Handlers == {"backend", "backend-rust"}

\* an Option is <<>> for None and <<x>> for Some(x)
\* the query parameter as received: empty, blank, a word within blanks, a word
RawQueries == {<<>>, <<" ">>, <<" ", "s", " ">>, <<"s">>}
\* the top_k parameter as received: Option<usize>
RawTopKs == {<<>>, <<0>>, <<1>>, <<MAX_TOP_K>>, <<MAX_TOP_K + 1>>}
\* the Api_key header as received: absent, blank, or a key
ApiKeys == {<<>>, <<<<" ">>>>, <<<<"k">>>>}

RECURSIVE TrimStart(_)
TrimStart(s) == IF s # <<>> /\ Head(s) = " " THEN TrimStart(Tail(s)) ELSE s

RECURSIVE TrimEnd(_)
TrimEnd(s) ==
  IF s # <<>> /\ s[Len(s)] = " " THEN TrimEnd(SubSeq(s, 1, Len(s) - 1)) ELSE s

\* str::trim
Trim(s) == TrimEnd(TrimStart(s))

\* backend-rust/handlers/search.rs:51-58, 139-146: the header, trimmed, must be
\* there and not be empty; backend/handlers/search.rs:53-60 falls back to the
\* configured key
ApiKeyAccepted(handler, api_key) ==
  handler = "backend-rust" => (api_key # <<>> /\ Trim(api_key[1]) # <<>>)

\* a handler that tests the query as received
HandleRequestUntrimmed(req) ==
  LET query == req.params.query
      top_k == IF req.params.top_k = <<>> THEN DEFAULT_TOP_K ELSE req.params.top_k[1]
  IN IF ~ApiKeyAccepted(req.handler, req.api_key)
     THEN [req EXCEPT !.pc = "done", !.status = 401]
     ELSE IF query = <<>> THEN [req EXCEPT !.pc = "done", !.status = 400]
     ELSE IF top_k = 0 \/ top_k > MAX_TOP_K THEN [req EXCEPT !.pc = "done", !.status = 400]
     ELSE EnterSearch([req EXCEPT !.query = query, !.top_k = top_k])

\* backend/handlers/search.rs:53-84 and backend-rust/handlers/search.rs:51-84,
\* 139-165: the checks of the request, then the call of semantic_search
HandleRequest(req) ==
  LET query == Trim(req.params.query)
      top_k == IF req.params.top_k = <<>> THEN DEFAULT_TOP_K ELSE req.params.top_k[1]
  IN IF ~ApiKeyAccepted(req.handler, req.api_key)
     THEN [req EXCEPT !.pc = "done", !.status = 401]
     ELSE IF query = <<>> THEN [req EXCEPT !.pc = "done", !.status = 400]
     ELSE IF top_k = 0 \/ top_k > MAX_TOP_K THEN [req EXCEPT !.pc = "done", !.status = 400]
     ELSE EnterSearch([req EXCEPT !.query = query, !.top_k = top_k])

\* a request reaches a search handler
HandleSemanticSearch(handler, api_key, query, top_k, scope, user_id) ==
  /\ phase = "serving"
  /\ search.pc \in {"idle", "done"}
  /\ user_id \in lim.users
  /\ search' = HandleRequest([NoSearch EXCEPT
                                !.handler = handler, !.api_key = api_key,
                                !.params = [query |-> query, top_k |-> top_k],
                                !.scope = scope,
                                !.user_id = IF scope = "starred" THEN user_id ELSE 0])
  /\ UNCHANGED <<SearchFrame, faults>>
  /\ ret' = NoResult

\* job_manager.rs:306-308: get_latest_job, a read of the store
GetLatestJob(u) ==
  /\ phase = "serving"
  /\ u \in lim.users
  /\ ret' = TurnedAway(LatestOk(u, get_latest_job(jobs, u)))
  /\ UNCHANGED Program

\* a step of the task spawned for job j
TaskStep(j) ==
  \/ FetchingStatus(j)
  \/ FetchStars(j)
  \/ ProgressTotal(j)
  \/ CreatingStatus(j)
  \/ FindReposNeedingEmbeddings(j)
  \/ ProgressAllExisting(j)
  \/ ReadmeJoin(j)
  \/ GetEmbeddingsBatch(j)
  \/ StoreRepository(j)
  \/ ProgressBatch(j)
  \/ GenerateGetUser(j)
  \/ GenerateUpdateUserStars(j)
  \/ ErrProgress(j)
  \/ ErrFailJob(j)
  \/ GetAuthenticatedUser(j)
  \/ UpdateUserStars(j)
  \/ CompleteJob(j)
  \/ TaskExit(j)

Next ==
  \/ InitializeScan
  \/ InitializeFail
  \/ \E u \in AllUsers : StartCheck(u)
  \/ \E u \in AllUsers : StartRejected(u)
  \/ \E u \in AllUsers : StartCreate(u)
  \/ \E j \in JobIds : StartInsert(j)
  \/ \E u \in AllUsers : StopRemove(u)
  \/ \E u \in AllUsers : StopNotFound(u)
  \/ \E j \in JobIds : StopAbort(j)
  \/ \E j \in JobIds : StopJoin(j)
  \/ \E j \in JobIds : StopFailJob(j)
  \/ \E u \in AllUsers : GetLatestJob(u)
  \/ \E j \in JobIds : TaskStep(j)

Spec == Init /\ [][Next]_vars
SpecPipeline == InitPipeline /\ [][Next]_vars
SpecBoot == InitBoot /\ [][Next]_vars
SpecRerun == InitRerun /\ [][Next]_vars
SpecShared == InitShared /\ [][Next]_vars
SpecRetry == InitRetry /\ [][Next]_vars
SpecLatest == InitLatest /\ [][Next]_vars
SpecCount == InitCount /\ [][Next]_vars

\* the orchestrator together with the query service, which reads the tables
\* the pipeline writes and writes none of them
SearchNext ==
  \/ Next
  \/ \E query \in Queries, top_k \in 0..MaxTopK, scope \in {"global", "starred"},
        user_id \in AllUsers :
       SemanticSearch(query, top_k, scope, user_id)
  \/ SearchReadStars
  \/ SearchGetEmbedding
  \/ SearchRank

SpecSearch == InitSearch /\ [][SearchNext]_vars

\* the start of the server, then the search handlers and the calls of
\* semantic_search they make
HandlerNext ==
  \/ InitializeScan
  \/ InitializeFail
  \/ \E handler \in Handlers, api_key \in ApiKeys, query \in RawQueries, top_k \in RawTopKs,
        scope \in {"global", "starred"} :
       HandleSemanticSearch(handler, api_key, query, top_k, scope, GoodUser)
  \/ SearchReadStars
  \/ SearchGetEmbedding
  \/ SearchRank

SpecHandler == InitHandler /\ [][HandlerNext]_vars

\* the pipeline under the scheduling of the runtime: a spawned task that can
\* take a step eventually takes one (its awaited call returns and the task is
\* polled again)
SpecLive == InitPipeline /\ [][Next]_vars /\ \A j \in JobIds : WF_vars(TaskStep(j))

\* ------------------------------------------------------------------ properties
JobRows == 1..Len(jobs)

\* a task that runs and that no stop_job call has taken the handle of
Live(j) == task[j].st = "running" /\ stop[j] = "none"

\* C1: at any moment at most one pipeline task is running for any one user.
C1_OneTaskPerUser ==
  \A u \in AllUsers : Cardinality({j \in JobIds : Live(j) /\ task[j].user_id = u}) <= 1

\* C2: while the task of a job whose start call has returned is still running,
\* no further start call for that user passes the registry check; and once a
\* task has completed, the registry does not hold its entry, so the next start
\* call for that user is accepted.
C2_SecondRejectedThirdAccepted ==
  /\ [][\A u \in AllUsers :
          creating'[u] > creating[u] =>
            ~\E j \in JobIds : Live(j) /\ task[j].user_id = u /\ j \notin inserting]_vars
  /\ [](\A u \in AllUsers :
          active_jobs[u] # 0 => task[active_jobs[u]].st # "finished")

\* C3: once a job row is completed or failed, no step changes its status.
C3_TerminalOnce ==
  [][\A j \in JobRows : jobs[j].status \in Terminal => jobs'[j].status = jobs[j].status]_vars

\* C4: a task that ended because get_starred_repos failed leaves its job
\* failed, with nothing of the later steps written.
C4_FetchFailureFailsJob ==
  \A j \in JobIds :
    task[j].st = "finished" /\ task[j].err = "fetch" =>
      /\ jobs[j].status = FAILED
      /\ jobs[j].total_repos = 0 /\ jobs[j].processed_repos = 0

\* C5: a task that has run to its end, and whose terminal write the store did
\* not reject, leaves its job completed or failed.
C5_TaskEndsTerminal ==
  \A j \in JobIds :
    task[j].st = "finished" /\ task[j].err \notin {"err_fail", "complete"} =>
      jobs[j].status \in Terminal

\* C6: the processed count of a job row never decreases and never exceeds total.
C6_ProcessedMonotone ==
  [][\A j \in JobRows :
       /\ jobs'[j].processed_repos >= jobs[j].processed_repos
       /\ jobs'[j].processed_repos <= jobs'[j].total_repos]_vars

\* C7: in every state of every job row processed + failed <= total, and no
\* step writes a smaller total.
C7_CountersWithinTotal ==
  /\ [](\A j \in JobRows :
          jobs[j].processed_repos + jobs[j].failed_repos <= jobs[j].total_repos)
  /\ [][\A j \in JobRows : jobs'[j].total_repos >= jobs[j].total_repos]_vars

\* a run whose first batch succeeded and whose second batch failed has written
\* counters that fill total
C7_Witness ==
  \E j \in JobRows :
    /\ task[j].processed_count > 0 /\ task[j].failed_count > 0
    /\ jobs[j].processed_repos > 0 /\ jobs[j].failed_repos = task[j].failed_count
    /\ jobs[j].processed_repos + jobs[j].failed_repos = jobs[j].total_repos

\* C8: once initialize() has returned Ok, exactly the rows that were in a
\* non-terminal status are changed, to failed with completed_at set; the
\* completed and failed rows are as they were.
C8_InitializeFailsStale ==
  phase = "serving" =>
    \A id \in 1..Len(boot_jobs) :
      jobs[id] = IF boot_jobs[id].status \in Terminal THEN boot_jobs[id]
                 ELSE [boot_jobs[id] EXCEPT !.status = FAILED, !.completed_at = TRUE]

\* initialize() has returned over a table holding a stale row and a completed one
C8_Witness ==
  /\ phase = "serving"
  /\ \E a, b \in 1..Len(boot_jobs) :
       /\ boot_jobs[a].status = CREATING /\ jobs[a].status = FAILED /\ jobs[a].completed_at
       /\ boot_jobs[b].status = COMPLETED /\ jobs[b].status = COMPLETED

\* C9: when stop_job took the entry of job j and has returned Ok, the registry
\* does not hold that entry and the row of j is failed.
C9_StopLeavesFailed ==
  \A j \in JobIds :
    stop[j] = "returned" =>
      /\ active_jobs[task[j].user_id] # j
      /\ jobs[j].status = FAILED

\* the task is inside an outer batch: past the first README join, or at the
\* provider calls, the upserts or the progress write of the batch
MidBatch(t) ==
  \/ t.pc \in {"embed", "upsert", "progress_batch"}
  \/ t.pc = "readme" /\ t.ri > 1

\* C10: a stop is honoured only at a batch boundary: no task is cancelled
\* while it is inside an outer batch.
C10_CancelAtBatchBoundary ==
  [][\A j \in JobIds :
       task[j].st = "running" /\ task'[j].st = "cancelled" => ~MidBatch(task[j])]_vars

\* no start_job or stop_job call for user u is between its first and its last step
Quiet(u) ==
  /\ creating[u] = 0
  /\ \A j \in JobIds :
       task[j].user_id = u => j \notin inserting /\ stop[j] \in {"none", "returned"}

\* C11: whenever no start or stop call for a user is in progress, the registry
\* holds no entry of a job whose task has ended.
C11_EntryRemovedAtTaskEnd ==
  \A u \in AllUsers :
    Quiet(u) /\ active_jobs[u] # 0 => task[active_jobs[u]].st = "running"

\* the step in which the create_job of a start_job(u) call failed
CreateFailed(u) == creating'[u] < creating[u] /\ Len(jobs') = Len(jobs)

\* C12: when create_job fails, start_job returns the error, spawns no task and
\* leaves the registry as it is; every task and every registry entry belongs
\* to a row that create_job has inserted.
C12_CreateFailureSpawnsNothing ==
  /\ [][\A u \in AllUsers :
          CreateFailed(u) =>
            /\ ret' = StartErr(u, "DatabaseError")
            /\ UNCHANGED <<jobs, task, inserting, active_jobs>>]_vars
  /\ [](\A j \in JobIds : task[j].st # "none" \/ j \in inserting => j \in JobRows)
  /\ [](\A u \in AllUsers :
          active_jobs[u] # 0 =>
            active_jobs[u] \in JobRows /\ jobs[active_jobs[u]].user_id = u)

\* a start_job call has just returned the error of create_job
C12_Witness ==
  /\ \E u \in AllUsers : ret = StartErr(u, "DatabaseError")
  /\ \A j \in JobIds : task[j].st = "none"
  /\ \A u \in AllUsers : active_jobs[u] = 0

\* C13: the create_job of a start_job(u) call adds exactly one row, owned by u,
\* pending with all counters 0, before the task has taken a step; and the id
\* start_job returns is the id of a row of this run owned by u.
C13_StartCreatesOnePendingRow ==
  /\ [][\A u \in AllUsers :
          creating'[u] < creating[u] /\ jobs' # jobs =>
            /\ Len(jobs') = Len(jobs) + 1
            /\ SubSeq(jobs', 1, Len(jobs)) = jobs
            /\ jobs'[Len(jobs')] = NewJob(u)
            /\ jobs'[Len(jobs')].status = PENDING
            /\ task[Len(jobs')].st = "none"
            /\ task'[Len(jobs')].pc = "status_fetching"]_vars
  /\ [][ret'.op = "start" /\ ret'.result = "Ok" /\ inserting' # inserting =>
          /\ inserting' = inserting \ {ret'.job_id}
          /\ ret'.job_id \in inserting
          /\ ret'.job_id \in (Len(boot_jobs) + 1)..Len(jobs)
          /\ jobs[ret'.job_id].user_id = ret'.user_id
          /\ active_jobs'[ret'.user_id] = ret'.job_id]_vars
  /\ [](\A j \in JobIds : task[j].st # "none" => j \in JobRows /\ jobs[j].user_id = task[j].user_id)

\* start_job has just returned the id of a row that is still pending
C13_Witness ==
  /\ ret.op = "start" /\ ret.result = "Ok"
  /\ jobs[ret.job_id] = NewJob(ret.user_id)
  /\ active_jobs[ret.user_id] = ret.job_id

\* C14: a stop_job(u) call returns JobNotFound exactly when the registry holds
\* no entry for u, and then no variable of the program changes; a stop_job call
\* goes on to abort a task only with the entry it took from the registry.
C14_StopNotFoundChangesNothing ==
  /\ [][\A u \in AllUsers :
          ret' = StopErr(u, "JobNotFound") /\ ret' # ret =>
            /\ active_jobs[u] = 0
            /\ UNCHANGED Program]_vars
  /\ [][\A j \in JobIds :
          stop'[j] # stop[j] /\ stop[j] = "none" =>
            active_jobs[task[j].user_id] = j /\ ret'.result # "JobNotFound"]_vars
  /\ [](ret.result = "JobNotFound" => active_jobs[ret.user_id] = 0)

\* stop_job has just returned JobNotFound for a user whose job has run to its end
C14_Witness ==
  /\ ret = StopErr(GoodUser, "JobNotFound")
  /\ \E j \in JobRows :
       j > Len(boot_jobs) /\ jobs[j].user_id = GoodUser /\ task[j].st = "finished"

\* the task of job j has met no failed call and no stop_job
Undisturbed(j) == faults = 0 /\ stop[j] = "none"

\* process_user_stars of job j has returned, its task not yet ended, and every
\* item of its list was new at the existing-id lookup
ReturnedAllNew(j) ==
  /\ task[j].st = "running" /\ task[j].pc = "exit"
  /\ task[j].repos_to_process = task[j].starred_repos

\* the ids of the list of job j recorded in repos_without_readme
Unenriched(j) == Range(task[j].starred_repos) \cap repos_without_readme

\* C15: a running task whose calls all succeed, and that is not stopped,
\* eventually returns with its job completed; if every item of its list was new
\* and had a README, the row then reads total = processed = n and failed = 0,
\* every item is stored with its embedding and the user's membership is the list.
C15_EndToEndSuccess ==
  /\ \A j \in JobIds :
       (task[j].st = "running")
         ~> (faults > 0 \/ stop[j] # "none"
               \/ (task[j].pc = "exit" /\ jobs[j].status = COMPLETED))
  /\ [](\A j \in JobIds :
          Undisturbed(j) /\ ReturnedAllNew(j) /\ Unenriched(j) = {} =>
            /\ jobs[j].status = COMPLETED /\ jobs[j].completed_at
            /\ jobs[j].total_repos = Len(task[j].starred_repos)
            /\ jobs[j].processed_repos = Len(task[j].starred_repos)
            /\ jobs[j].failed_repos = 0
            /\ \A id \in Range(task[j].starred_repos) : repositories[id] = Embedding(id)
            /\ user_stars[task[j].user_id].repo_ids = task[j].starred_repos)

\* a job over MaxStars new items has completed with every call successful
C15_Witness ==
  \E j \in JobIds :
    /\ Undisturbed(j) /\ ReturnedAllNew(j) /\ Unenriched(j) = {}
    /\ Len(task[j].starred_repos) = MaxStars
    /\ jobs[j].status = COMPLETED /\ jobs[j].processed_repos = MaxStars

\* C20: a task that found an item without README, whose other calls all
\* succeed and that is not stopped, still returns with its job completed; if
\* every item of its list was new and exactly one had no README, the row then
\* reads total = n and processed = n - 1, that item has no stored embedding and
\* is recorded in repos_without_readme, and every other item is stored with
\* its embedding.
C20_OneReadmeFailureIsolated ==
  /\ \A j \in JobIds :
       (task[j].st = "running" /\ Unenriched(j) # {})
         ~> (faults > 0 \/ stop[j] # "none"
               \/ (task[j].pc = "exit" /\ jobs[j].status = COMPLETED))
  /\ [](\A j \in JobIds :
          Undisturbed(j) /\ ReturnedAllNew(j) /\ Cardinality(Unenriched(j)) = 1 =>
            /\ jobs[j].status = COMPLETED
            /\ jobs[j].total_repos = Len(task[j].starred_repos)
            /\ jobs[j].processed_repos = Len(task[j].starred_repos) - 1
            /\ jobs[j].failed_repos = 0
            /\ \A id \in Range(task[j].starred_repos) :
                 repositories[id] = IF id \in repos_without_readme THEN 0 ELSE Embedding(id))

\* a job over MaxStars new items, the second of them without README, has completed
C20_Witness ==
  \E j \in JobIds :
    /\ Undisturbed(j) /\ ReturnedAllNew(j)
    /\ Len(task[j].starred_repos) = MaxStars
    /\ Unenriched(j) = {task[j].starred_repos[2]}
    /\ jobs[j].status = COMPLETED /\ jobs[j].processed_repos = MaxStars - 1

\* C16: in the step that makes a job completed, the membership set of its user
\* is the list the task fetched.
C16_MembershipOverwritten ==
  [][\A j \in JobRows :
       jobs[j].status # COMPLETED /\ jobs'[j].status = COMPLETED /\ task[j].st = "running" =>
         user_stars'[task[j].user_id].repo_ids = task[j].starred_repos]_vars

\* C17: a task that ended because get_authenticated_user or the user_stars
\* write failed, inside generate_and_store_embeddings or after it, leaves its
\* job failed.
C17_MembershipFailureFailsJob ==
  \A j \in JobIds :
    /\ task[j].st = "finished"
    /\ task[j].err \in {"gs_user", "gs_stars", "ps_user", "ps_stars"}
    /\ stop[j] = "none"
    => jobs[j].status = FAILED

\* job k ran the pipeline again over the list of job j: k was spawned after
\* j had completed, for the same user, and fetched the same list
Rerun(j, k) ==
  /\ j \in task[k].prior
  /\ task[k].user_id = task[j].user_id
  /\ task[k].pc \notin {"status_fetching", "fetch"}
  /\ task[k].starred_repos = task[j].starred_repos

EnrichedByStep(j) ==
  LET t == task[j]
  IN IF ~(t.st = "running" /\ task'[j].st = "running" /\ task'[j] # t) THEN {}
     ELSE IF t.pc = "readme" THEN {Batch(t)[t.ri]}
     ELSE IF t.pc = "embed"
          THEN {t.processed_repos[i] :
                  i \in (Len(t.embeddings) + 1)..
                        Min(Len(t.embeddings) + EMBED_BATCH_SIZE, Len(t.processed_repos))}
     ELSE IF t.pc = "upsert" THEN {t.processed_repos[t.ri]}
     ELSE {}

\* C19 as stated: no step of any job fetches the README of, sends to the
\* provider, or upserts an item that has a stored embedding.
C19_StoredItemNeverReEnriched ==
  [][\A j \in JobIds : \A id \in EnrichedByStep(j) : repositories[id] = 0]_vars

\* C19 amended: a job enriches only the items its existing-id lookup did not
\* return, so an item that had a stored embedding when the job looked it up is
\* not enriched again by that job.
C19_StoredAtLookupNotReEnriched ==
  /\ [][\A j \in JobIds :
          task[j].pc = "existing" /\ task'[j].pc \in {"readme", "progress_all"} =>
            \A id \in Range(task[j].starred_repos) :
              repositories[id] # 0 => id \notin Range(task'[j].repos_to_process)]_vars
  /\ [][\A j \in JobIds : EnrichedByStep(j) \subseteq Range(task[j].repos_to_process)]_vars

\* a job has looked up a list whose item another user's job had stored, and
\* has nothing to process
C19_Witness ==
  \E j, k \in JobRows :
    /\ task[j].user_id # task[k].user_id
    /\ jobs[j].status = COMPLETED /\ jobs[j].processed_repos > 0
    /\ task[k].st = "running" /\ task[k].pc = "progress_all"
    /\ task[k].starred_repos # <<>>
    /\ \A id \in Range(task[k].starred_repos) : repositories[id] # 0

\* the step in which a provider call of job j's task returned Err (the request
\* failed, or the reply held another number of embeddings than texts)
ProviderFailed(j) ==
  /\ task[j].st = "running" /\ task[j].pc = "embed"
  /\ task'[j].st = "running" /\ task'[j].calls > task[j].calls
  /\ faults' > faults

\* the step in which job j's task wrote, or tried to write, the progress of a batch
BatchProgressStep(j) ==
  /\ task[j].st = "running" /\ task[j].pc = "progress_batch"
  /\ task'[j].st = "running" /\ task'[j] # task[j]

\* C21: when a provider call of an outer batch fails, failed_count grows by
\* the size of that outer batch, processed_count stays, nothing is stored, and
\* the task goes to the progress write of the batch; that write, unless the
\* store rejects it, records the counters, and the task goes on with the next
\* outer batch or, after the last, with the membership write; a task that is
\* at the progress write of a failed batch and meets no further failure and no
\* stop returns with its job completed.
C21_ProviderFailureBatchScoped ==
  /\ [][\A j \in JobIds :
          ProviderFailed(j) =>
            /\ task'[j].failed_count = task[j].failed_count + Len(Batch(task[j]))
            /\ task'[j].processed_count = task[j].processed_count
            /\ task'[j].pc = "progress_batch" /\ task'[j].bi = task[j].bi
            /\ UNCHANGED <<jobs, repositories, repos_without_readme>>]_vars
  /\ [][\A j \in JobIds :
          BatchProgressStep(j) =>
            /\ faults' = faults =>
                 /\ jobs'[j].failed_repos = task[j].failed_count
                 /\ jobs'[j].processed_repos = TotalProcessed(task[j])
            /\ task'[j].failed_count = task[j].failed_count
            /\ IF task[j].bi + BATCH_SIZE <= Len(task[j].repos_to_process)
               THEN task'[j].pc = "readme" /\ task'[j].bi = task[j].bi + BATCH_SIZE
               ELSE task'[j].pc = "gs_user"]_vars
  /\ \A j \in JobIds : \A f \in 1..MaxFaults :
       (task[j].st = "running" /\ task[j].pc = "progress_batch"
          /\ task[j].failed_count > 0 /\ faults = f)
         ~> (faults > f \/ stop[j] # "none"
               \/ (task[j].pc = "exit" /\ jobs[j].status = COMPLETED))

\* a job whose first outer batch failed at the provider and whose second
\* succeeded has completed
C21_Witness ==
  \E j \in JobRows :
    /\ task[j].st = "running" /\ task[j].pc = "exit" /\ jobs[j].status = COMPLETED
    /\ task[j].failed_count = BATCH_SIZE /\ task[j].processed_count > 0
    /\ jobs[j].failed_repos = BATCH_SIZE
    /\ jobs[j].processed_repos = jobs[j].total_repos - BATCH_SIZE

\* the step in which the upsert of a pair by job j's task returned Err
UpsertFailed(j) ==
  /\ task[j].st = "running" /\ task[j].pc = "upsert"
  /\ task'[j].st = "running" /\ task'[j] # task[j]
  /\ faults' > faults

\* the step in which job j's task got the answer of the existing-id lookup
LookedUp(j) ==
  /\ task[j].st = "running" /\ task[j].pc = "existing"
  /\ task'[j].st = "running" /\ task'[j].pc \in {"readme", "progress_all"}

\* C22: when the upsert of a pair fails, no table changes, no error is
\* recorded, failed_count stays, and the task goes on with the next pair of the
\* batch or, after the last pair, counts the batch as processed; and the
\* existing-id lookup of any run selects for processing every item of its
\* list that is neither stored nor tracked, so a later run over the same list
\* processes the item again.
C22_FailedUpsertIsolated ==
  /\ [][\A j \in JobIds :
          UpsertFailed(j) =>
            /\ UNCHANGED <<repositories, repos_without_readme, jobs>>
            /\ task'[j].err = "none" /\ task'[j].failed_count = task[j].failed_count
            /\ IF task[j].ri < Len(task[j].processed_repos)
               THEN /\ task'[j].pc = "upsert" /\ task'[j].ri = task[j].ri + 1
                    /\ task'[j].processed_count = task[j].processed_count
               ELSE /\ task'[j].pc = "progress_batch"
                    /\ task'[j].processed_count =
                         task[j].processed_count + Len(task[j].processed_repos)]_vars
  /\ [][\A j \in JobIds :
          LookedUp(j) =>
            \A id \in Range(task[j].starred_repos) :
              id \in Range(task'[j].repos_to_process)
                <=> (repositories[id] = 0 /\ id \notin repos_without_readme)]_vars
  /\ [](\A j \in JobIds :
          task[j].st = "running" /\ task[j].pc = "upsert" =>
            /\ Len(task[j].embeddings) = Len(task[j].processed_repos)
            /\ task[j].ri \in 1..Len(task[j].processed_repos))

\* the first run completed with both items counted although the upsert of the
\* first had failed and the second is stored; the later run over the same list
\* looked up exactly the first item, sent it to the provider and stored it
C22_Witness ==
  \E j, k \in JobRows :
    /\ task[j].st = "finished" /\ jobs[j].status = COMPLETED
    /\ jobs[j].processed_repos = 2 /\ jobs[j].failed_repos = 0
    /\ faults = 1
    /\ task[k].st = "running" /\ task[k].pc = "progress_batch"
    /\ task[k].starred_repos = <<1, 2>> /\ task[k].repos_to_process = <<1>>
    /\ task[k].calls = 1
    /\ repositories[1] = Embedding(1) /\ repositories[2] = Embedding(2)

\* job j's task is at a step of an outer batch after the first: a README join,
\* a provider call or an upsert
InLaterBatch(j) ==
  /\ task[j].st = "running" /\ task[j].pc \in {"readme", "embed", "upsert"}
  /\ task[j].bi > 1

\* the row of job j shows the counters job j's task holds
ProgressVisible(j) ==
  /\ jobs[j].total_repos = Len(task[j].starred_repos)
  /\ jobs[j].processed_repos = TotalProcessed(task[j])
  /\ jobs[j].failed_repos = task[j].failed_count

AllExistingProgressStep(j) ==
  /\ task[j].st = "running" /\ task[j].pc = "progress_all"
  /\ task'[j].st = "running" /\ task'[j] # task[j]

\* total - repos_to_process.len(): the items of the list the lookup found
AlreadyExisting(t) == Len(t.starred_repos) - Len(t.repos_to_process)

\* C24: the progress write after an outer batch, when the store accepts it,
\* leaves total as it is and sets processed to already_existing plus the
\* items of the batches that succeeded so far and failed to the items of the
\* batches that failed so far; the write made when the lookup found every
\* item sets processed to total and failed to 0; neither changes anything else
\* of the row.
C24_ProgressCounters ==
  /\ [][\A j \in JobIds :
          BatchProgressStep(j) /\ faults' = faults =>
            jobs'[j] = [jobs[j] EXCEPT
                          !.processed_repos = AlreadyExisting(task[j]) + task[j].processed_count,
                          !.failed_repos = task[j].failed_count]]_vars
  /\ [][\A j \in JobIds :
          AllExistingProgressStep(j) /\ faults' = faults =>
            jobs'[j] = [jobs[j] EXCEPT !.processed_repos = jobs[j].total_repos,
                                       !.failed_repos = 0]]_vars
  /\ [](\A j \in JobIds :
          task[j].st = "running" /\ task[j].pc \in {"progress_batch", "progress_all"} =>
            /\ jobs[j].total_repos = Len(task[j].starred_repos)
            /\ AlreadyExisting(task[j]) =
                 Cardinality({id \in Range(task[j].starred_repos) :
                                id \notin Range(task[j].repos_to_process)})
            /\ task[j].processed_count + task[j].failed_count
                 <= Min(task[j].bi + BATCH_SIZE - 1, Len(task[j].repos_to_process))
            /\ task[j].pc = "progress_all" => task[j].repos_to_process = <<>>)

\* the progress of a failed batch has been written for a list of which one
\* item was found by the lookup: the row counts that item as processed and
\* the batch as failed
C24_Witness ==
  \E j \in JobRows :
    /\ task[j].st = "running" /\ task[j].pc = "gs_user"
    /\ Len(task[j].starred_repos) = MaxStars /\ AlreadyExisting(task[j]) = 1
    /\ task[j].processed_count = 0 /\ task[j].failed_count = BATCH_SIZE
    /\ jobs[j].processed_repos = 1 /\ jobs[j].failed_repos = BATCH_SIZE
    /\ jobs[j].total_repos = MaxStars

\* the place of a status in the life of a job
StatusRank(s) ==
  IF s = PENDING THEN 0 ELSE IF s = FETCHING THEN 1 ELSE IF s = CREATING THEN 2 ELSE 3

StepOfUser(u) ==
  \/ creating'[u] # creating[u]
  \/ \E j \in JobIds :
       /\ u \in {task[j].user_id, task'[j].user_id}
       /\ \/ task'[j] # task[j]
          \/ stop'[j] # stop[j]
          \/ (j \in inserting) # (j \in inserting')

\* C26: a start_job(u) call passes the registry check whenever the registry
\* holds no entry for u, whatever entries other users have (the bound on the
\* jobs of one run aside); every step that changes the program is a step of a
\* call or task of one user, and such a step changes neither the registry
\* entry nor any job row of another user; the entry of a user is a job of that
\* user.
C26_UsersIndependent ==
  /\ [](\A u \in lim.users :
          phase = "serving" /\ active_jobs[u] = 0 /\ NewJobsSoFar + Creating < lim.jobs =>
            ENABLED StartCheck(u))
  /\ [][phase = "serving" /\ Program' # Program => \E u \in AllUsers : StepOfUser(u)]_vars
  /\ [][\A u, v \in AllUsers :
          u # v /\ StepOfUser(u) =>
            /\ active_jobs'[v] = active_jobs[v]
            /\ \A j \in JobRows : jobs[j].user_id = v => jobs'[j] = jobs[j]
            /\ Len(jobs') > Len(jobs) =>
                 Len(jobs') = Len(jobs) + 1 /\ jobs'[Len(jobs')].user_id = u]_vars
  /\ [](\A u \in AllUsers :
          active_jobs[u] # 0 =>
            active_jobs[u] \in JobRows /\ task[active_jobs[u]].user_id = u
              /\ jobs[active_jobs[u]].user_id = u)

\* start_job has returned a job id to one user while the task of another
\* user's job is running with its entry in the registry
C26_Witness ==
  \E u, v \in lim.users :
    /\ u # v
    /\ active_jobs[u] # 0 /\ task[active_jobs[u]].st = "running"
    /\ active_jobs[v] # 0 /\ task[active_jobs[v]].st = "running"
    /\ ret = StartOk(v, active_jobs[v])

\* the rows of user u in the user_jobs table js
RowsOf(js, u) == {id \in 1..Len(js) : js[id].user_id = u}

\* C27: no step removes a job row or gives it to another user; get_latest_job
\* changes nothing and returns the row of the user that was created last, or
\* none when the user has no row; when a start_job call that no other start_job
\* call of the user overlapped returns a job id, that job is the user's latest;
\* and the latest job of a user changes only in the step in which the
\* create_job of a start_job call for that user inserts its row.
C27_LatestJobReadThrough ==
  /\ [][/\ Len(jobs') >= Len(jobs)
        /\ \A j \in JobRows : jobs'[j].user_id = jobs[j].user_id]_vars
  /\ [][ret'.op = "latest" /\ ret' # ret =>
          /\ UNCHANGED Program
          /\ IF RowsOf(jobs, ret'.user_id) = {} THEN ret'.job_id = 0
             ELSE /\ ret'.job_id \in RowsOf(jobs, ret'.user_id)
                  /\ \A other \in RowsOf(jobs, ret'.user_id) : other <= ret'.job_id]_vars
  /\ [][ret'.op = "start" /\ ret'.result = "Ok" /\ inserting' # inserting
          /\ ~overlap[ret'.user_id] =>
            /\ get_latest_job(jobs', ret'.user_id) = ret'.job_id
            /\ \A other \in RowsOf(jobs', ret'.user_id) : other <= ret'.job_id]_vars
  /\ [][\A u \in AllUsers :
          get_latest_job(jobs', u) # get_latest_job(jobs, u) =>
            /\ creating'[u] < creating[u]
            /\ Len(jobs') = Len(jobs) + 1
            /\ get_latest_job(jobs', u) = Len(jobs')]_vars

\* get_latest_job has returned the second job of the run, whose start_job call
\* was not overlapped and has returned, while the row of the first job and the
\* row an earlier run left are still in the table
C27_Witness ==
  /\ ret.op = "latest" /\ ret.user_id = GoodUser
  /\ Len(jobs) = Len(boot_jobs) + MaxJobs /\ ret.job_id = Len(jobs)
  /\ Cardinality(RowsOf(jobs, GoodUser)) = Len(jobs)
  /\ task[ret.job_id].solo /\ task[ret.job_id - 1].solo
  /\ task[ret.job_id - 1].st = "finished"

\* ------------------------------------------------------------------ C28
\* C28: a Starred query that passed validation and read an empty membership
\* list (a row with no ids, or no row at all) has returned Ok with no rows,
\* and has sent no request to the embedding provider and run no ranking query.
C28_EmptyMembershipShortCircuits ==
  (/\ search.scope = "starred"
   /\ search.reads = 1
   /\ search.result # "DatabaseError"
   /\ search.starred_repo_ids = <<>>)
  => /\ search.pc = "done"
     /\ search.result = "Ok"
     /\ search.results = <<>>
     /\ search.calls = 0
     /\ search.ranked = 0

\* a call with a query text and a positive top_k found no list for its user,
\* while repositories held rows a ranking query would have returned
C28_Witness ==
  /\ search.scope = "starred"
  /\ search.query # <<>>
  /\ search.top_k > 0
  /\ search.reads = 1
  /\ search.result = "Ok"
  /\ search.starred_repo_ids = <<>>
  /\ AllRepositories # {}

\* ------------------------------------------------------------------ C29
\* the rows the ranking query of the call in progress draws from: every row of
\* repositories for a Global call, those in the user's stored list for a
\* Starred one
SearchPool ==
  {id \in AllRepositories :
     search.scope = "starred" => id \in Range(user_stars[search.user_id].repo_ids)}

\* rows is a ranking of the pool by distance to q, cut at top_k
RankedFrom(rows, pool, q, top_k) ==
  /\ Range(rows) \subseteq pool
  /\ Len(rows) <= top_k
  /\ \A i \in 1..Len(rows), k \in 1..Len(rows) :
       /\ i < k => rows[i] # rows[k]
       /\ i < k => Distance(repositories[rows[i]], q) <= Distance(repositories[rows[k]], q)
  /\ Len(rows) = top_k \/ Range(rows) = pool
  /\ \A id \in pool \ Range(rows), i \in 1..Len(rows) :
       Distance(repositories[rows[i]], q) <= Distance(repositories[id], q)

\* C29: the rows a ranking query returns are stored rows (each has its
\* embedding), for a Starred call all in the user's list as stored when the
\* query runs, at most top_k of them, in non-decreasing distance to the query
\* vector, and no row of the pool left out is nearer than a row returned; a
\* Global call ranks all of repositories with the same limit and order.
C29_RankedWithinScope ==
  [][(search.pc = "rank" /\ search'.pc = "done" /\ search'.result = "Ok")
       => RankedFrom(search'.results, SearchPool, search.query_embedding, search.top_k)]_vars

\* a Starred call was returned fewer rows than it asked for although
\* repositories holds enough: the rows outside the user's list were left out
C29_Witness ==
  /\ search.scope = "starred"
  /\ search.ranked = 1
  /\ search.result = "Ok"
  /\ search.results # <<>>
  /\ Len(search.results) < search.top_k
  /\ Cardinality(AllRepositories) >= search.top_k

\* ------------------------------------------------------------------ C30
\* C30: a semantic_search call with an empty query has returned
\* ValidationError, whatever its scope and top_k, and has read no membership
\* list, sent no provider request and run no ranking query.
C30_EmptyQueryRejectedFirst ==
  (search.pc # "idle" /\ search.query = <<>>)
  => /\ search.pc = "done"
     /\ search.result = "ValidationError"
     /\ search.reads = 0
     /\ search.calls = 0
     /\ search.ranked = 0

\* a Starred call with an empty query and top_k 0 was rejected
C30_Witness ==
  /\ search.pc = "done"
  /\ search.query = <<>>
  /\ search.top_k = 0
  /\ search.scope = "starred"
  /\ search.result = "ValidationError"

\* ------------------------------------------------------------------ C31
\* C31: a semantic_search call with a query text and top_k 0 has returned Ok
\* with no rows, for either scope, and has read no membership list, sent no
\* provider request and run no ranking query.
C31_TopKZeroShortCircuits ==
  (search.pc # "idle" /\ search.query # <<>> /\ search.top_k = 0)
  => /\ search.pc = "done"
     /\ search.result = "Ok"
     /\ search.results = <<>>
     /\ search.reads = 0
     /\ search.calls = 0
     /\ search.ranked = 0

\* a Global call with top_k 0 returned while repositories held rows
C31_Witness ==
  /\ search.pc = "done"
  /\ search.query # <<>>
  /\ search.top_k = 0
  /\ search.scope = "global"
  /\ search.result = "Ok"
  /\ AllRepositories # {}

\* ------------------------------------------------------------------ C32
\* a step of a semantic_search call: its entry, or one of its awaits
SearchStep == search' # search

\* C32: no step of a semantic_search call, whether it goes on, returns rows or
\* fails, changes a row of user_jobs, repositories, repos_without_readme or
\* user_stars, or the active_jobs registry.
C32_SearchReadsOnly ==
  [][SearchStep => UNCHANGED <<jobs, repositories, repos_without_readme, user_stars,
                               active_jobs>>]_vars

\* a Starred call read the membership of a user without a row and returned,
\* and the user still has no row
C32_Witness ==
  /\ search.pc = "done"
  /\ search.scope = "starred"
  /\ search.reads = 1
  /\ ~user_stars[search.user_id].present
  /\ \E u \in AllUsers : active_jobs[u] # 0

\* ------------------------------------------------------------------ C37
\* the items of job j's own work list that repositories holds: where j is the
\* only job that ran, the items j upserted with their embedding
StoredByJob(j) == {id \in Range(task[j].repos_to_process) : repositories[id] # 0}

\* processed - already_existing, as the job record shows it
ProcessedNew(j) == jobs[j].processed_repos - AlreadyExisting(task[j])

\* C37 as stated: in every state of a job, processed - already_existing is at
\* most the number of items the job has upserted with an embedding.
C37_ProcessedWithinUpserted ==
  \A j \in JobRows :
    task[j].st # "none" => ProcessedNew(j) <= Cardinality(StoredByJob(j))

\* C37 amended: processed - already_existing is at most the number of items
\* the job has upserted plus the number of its upserts that the store
\* rejected; it over-reports stored work by rejected upserts only.
C37_ProcessedWithinAttempted ==
  \A j \in JobRows :
    task[j].st # "none" => ProcessedNew(j) <= Cardinality(StoredByJob(j)) + task[j].lost

\* a job that ended reports one item more than repositories holds of its
\* work list, and one of its upserts was rejected
C37_Witness ==
  \E j \in JobRows :
    /\ task[j].st = "finished"
    /\ jobs[j].status = COMPLETED
    /\ task[j].lost = 1
    /\ Cardinality(StoredByJob(j)) > 0
    /\ ProcessedNew(j) = Cardinality(StoredByJob(j)) + 1

\* ------------------------------------------------------------------ C38
\* C38: no item of an outer batch whose embedding call failed at any of its
\* sub-batches is upserted, also not the items whose sub-batch the provider
\* had embedded before: during the run and after it, every such item that
\* obtained content is outside the result of the existing-id lookup.
C38_BatchAllOrNothing ==
  \A j \in JobRows :
    \A id \in task[j].dropped : id \notin existing_repos(task[j].starred_repos)

\* the run ended; in its first batch the provider embedded the first
\* sub-batch and failed the second, in its second batch the item was stored
C38_Witness ==
  \E j \in JobRows :
    /\ task[j].st = "finished"
    /\ Cardinality(task[j].dropped) = BATCH_SIZE
    /\ task[j].calls = BATCH_SIZE + 1
    /\ StoredByJob(j) # {}

\* ------------------------------------------------------------------ C39
\* C39: every row of repositories holds the vector the provider returned for
\* the text of that row's own item, whatever the length of the batch, the
\* number of provider calls it took and the items left out for want of
\* content.
C39_OwnVectorStored ==
  \A id \in RepoIds : repositories[id] # 0 => repositories[id] = Embedding(id)

\* the first item of a chunk was left out for want of content and the second
\* was stored, and so was the item of the chunk after it
C39_Witness ==
  /\ 1 \in repos_without_readme
  /\ repositories[2] = Embedding(2)
  /\ repositories[3] = Embedding(3)

\* ------------------------------------------------------------------ C33
\* C33: a README of more than README_LIMIT chars goes into the text as its
\* first README_LIMIT chars followed by "...", and a README of at most
\* README_LIMIT chars goes into it as it is.
C33_TruncationDeterministic ==
  (lib.fn = "repo_to_embedding_text" /\ lib.pc = "returned" /\ lib.readme_content # <<>>)
  => LET readme == lib.readme_content[1]
         sent == lib.truncated_readme
     IN IF Len(readme) > README_LIMIT
        THEN /\ Len(sent) = README_LIMIT + 3
             /\ \A i \in 1..README_LIMIT : sent[i] = readme[i]
             /\ \A i \in (README_LIMIT + 1)..(README_LIMIT + 3) : sent[i] = "."
        ELSE sent = readme

\* a README of 2500 chars, the first 2000 of which differ from the rest, was cut
C33_Witness ==
  /\ lib.fn = "repo_to_embedding_text" /\ lib.pc = "returned"
  /\ lib.readme_content = <<Readme(2500, README_LIMIT)>>
  /\ Len(lib.truncated_readme) = 2003

\* ------------------------------------------------------------------ C34
\* the number of provider requests a list of n texts takes
ChunkCount(n) == (n + PROVIDER_BATCH_SIZE - 1) \div PROVIDER_BATCH_SIZE

\* C34: the requests get_embeddings has sent are the chunks of at most
\* PROVIDER_BATCH_SIZE texts of its list, in the order of the list, one
\* request per chunk; when it returns Ok it has sent every chunk and returns
\* one vector per text in the order of the texts (no request and no vector for
\* the empty list); with an empty text in the list it returns ValidationError
\* and has sent no request; and when a request fails it returns the error and
\* no vector.
C34_GetEmbeddingsChunks ==
  lib.fn = "get_embeddings" =>
    LET n == Len(lib.texts)
        any_empty == \E i \in 1..n : lib.texts[i] = <<>>
    IN /\ Len(lib.requests) <= ChunkCount(n)
       /\ \A k \in 1..Len(lib.requests) :
            lib.requests[k] =
              SubSeq(lib.texts, PROVIDER_BATCH_SIZE * (k - 1) + 1,
                     Min(PROVIDER_BATCH_SIZE * k, n))
       /\ (lib.pc = "returned" /\ lib.result = "Ok") =>
            /\ Len(lib.requests) = ChunkCount(n)
            /\ Len(lib.returned) = n
            /\ \A i \in 1..n : lib.returned[i] = TextVector(lib.texts[i])
       /\ any_empty => lib.requests = <<>>
       /\ (lib.pc = "returned" /\ any_empty) => lib.result = "ValidationError"
       /\ (lib.pc = "returned" /\ lib.result # "Ok") => lib.returned = <<>>
       /\ (lib.pc = "returned" /\ ~any_empty /\ Len(lib.requests) < ChunkCount(n))
            => lib.result # "Ok"

\* nine texts took three requests, the last of one text
C34_Witness ==
  /\ lib.fn = "get_embeddings" /\ lib.pc = "returned" /\ lib.result = "Ok"
  /\ Len(lib.texts) = 2 * PROVIDER_BATCH_SIZE + 1
  /\ Len(lib.requests) = 3
  /\ Len(lib.requests[3]) = 1

\* ------------------------------------------------------------------ C35
\* the registry entry of user u belongs to the task that runs for u
EntryOfRunningTask(u) ==
  active_jobs[u] # 0 =>
    /\ task[active_jobs[u]].st = "running"
    /\ task[active_jobs[u]].user_id = u

\* the step in which the task of job j runs its epilogue and ends
TaskEnds(j) == task[j].st = "running" /\ task'[j].st = "finished"

\* C35: outside a start_job call the entry of a user is that of the task
\* running for the user, and the epilogue of a task takes no entry out of the
\* registry but the task's own.
C35_TaskRemovesOwnEntry ==
  /\ [](\A u \in AllUsers : ~InProgress(u) => EntryOfRunningTask(u))
  /\ [][\A j \in JobIds :
          TaskEnds(j) =>
            \A u \in AllUsers :
              (active_jobs[u] # 0 /\ active_jobs'[u] = 0) => active_jobs[u] = j]_vars

\* ------------------------------------------------------------------ C36
\* C36: once the stop_job call that took the entry of job j has returned, the
\* task of j has ended and takes no further step, so it writes no row of
\* user_jobs, repositories, repos_without_readme or user_stars; and the row of
\* j is not written again by anyone.
C36_StoppedTaskWritesNothing ==
  /\ [](\A j \in JobIds : stop[j] = "returned" => task[j].st # "running")
  /\ [][\A j \in JobIds :
          stop[j] = "returned" =>
            /\ task'[j] = task[j]
            /\ j \in JobRows => jobs'[j] = jobs[j]]_vars

\* job j was stopped while its task ran, stop_job has returned, and the task
\* of a job started afterwards for the same user is running
C36_Witness ==
  \E j, k \in JobIds :
    /\ j < k
    /\ stop[j] = "returned"
    /\ task[j].st = "cancelled"
    /\ task[k].user_id = task[j].user_id
    /\ task[k].st = "running"
    /\ active_jobs[task[k].user_id] = k

\* ------------------------------------------------------------------ C40
\* the request in `search` came through a handler and its parameters are not
\* acceptable: the query is empty once trimmed, or top_k is 0 or above 50
InvalidRequest ==
  /\ search.handler # "none"
  /\ \/ Trim(search.params.query) = <<>>
     \/ /\ search.params.top_k # <<>>
        /\ search.params.top_k[1] \notin 1..MAX_TOP_K

\* the request in `search` has no usable Api_key header and came to a handler
\* that demands one
KeylessRequest ==
  /\ search.handler = "backend-rust"
  /\ \/ search.api_key = <<>>
     \/ \A i \in 1..Len(search.api_key[1]) : search.api_key[1][i] = " "

\* the request in `search` was answered by its handler alone: nothing was read,
\* no embedding was asked for, nothing was ranked
AnsweredByHandler ==
  /\ search.pc = "done"
  /\ search.result = "none"
  /\ search.reads = 0 /\ search.calls = 0 /\ search.ranked = 0

\* a request the handler passes on runs with the trimmed query and with a top_k
\* in 1..50, which is 10 when the request names none
ExecutedWithinLimits ==
  (search.handler # "none" /\ search.status = 0) =>
     /\ search.top_k \in 1..MAX_TOP_K
     /\ search.params.top_k = <<>> => search.top_k = DEFAULT_TOP_K
     /\ search.query = Trim(search.params.query)

====
